---- MODULE Spec2Model ----
(***************************************************************************)
(* The hierarchical AST parser of code-tree (utils/astParser.ts, held in   *)
(* src/unnamed/part_001 lines 415-1045): tokenizer, the two expression     *)
(* parsers, the statement classifier and the tree assembler.               *)
(*                                                                         *)
(* A JavaScript string is a sequence of one-character strings, so that the *)
(* tokenizer, the regular expressions and split/trim/replace are computed  *)
(* character by character.  A node id `node_<k>` is the integer k.  Every   *)
(* node also carries obj, the serial of the createNode call that allocated *)
(* it (the identity of the JavaScript object).                             *)
(***************************************************************************)
EXTENDS Integers, Sequences, FiniteSets, TLC

VARIABLES
  nodeIdCounter,  \* the module-level counter (part_001 line 465)
  input,          \* argument `input` of the current / last call
  language,       \* argument `language` of the current / last call
  entry,          \* which exported function the call is: parseCode / parseExpression
  status,         \* "ready": call about to be made, "returned", "hung": never returns
  result,         \* the tree the last call returned
  first,          \* history: arguments and tree of the first call of the run
  given,          \* history: what the input text was written from
  calls           \* history: the number of calls that have returned

vars == <<nodeIdCounter, input, language, entry, status, result, first, given, calls>>

(***************************************************************************)
(* Characters and strings                                                  *)
(***************************************************************************)
Digits == {"0", "1", "2", "3", "4", "5", "6", "7", "8", "9"}

LowerLetters == <<"a", "b", "c", "d", "e", "f", "g", "h", "i", "j", "k", "l", "m",
                  "n", "o", "p", "q", "r", "s", "t", "u", "v", "w", "x", "y", "z">>

UpperLetters == <<"A", "B", "C", "D", "E", "F", "G", "H", "I", "J", "K", "L", "M",
                  "N", "O", "P", "Q", "R", "S", "T", "U", "V", "W", "X", "Y", "Z">>

Range(s) == {s[i] : i \in DOMAIN s}

Letters == Range(LowerLetters) \cup Range(UpperLetters)

\* /\s/ restricted to the white space the inputs can hold
WhiteSpace == {" ", "\t", "\n", "\r"}

\* /[+\-*/()^]/
Glyphs == {"+", "-", "*", "/", "(", ")", "^"}

\* /^\d+(\.\d+)?$/
IsNumber(t) ==
  /\ Len(t) > 0
  /\ \E n \in 1..Len(t) :
       /\ \A i \in 1..n : t[i] \in Digits
       /\ \/ n = Len(t)
          \/ /\ n + 2 <= Len(t)
             /\ t[n + 1] = "."
             /\ \A i \in (n + 2)..Len(t) : t[i] \in Digits

\* /^[a-zA-Z_][a-zA-Z0-9_]*$/
IsIdentifier(t) ==
  /\ Len(t) > 0
  /\ t[1] \in Letters \cup {"_"}
  /\ \A i \in 2..Len(t) : t[i] \in Letters \cup Digits \cup {"_"}

\* /^["'].*["']$/
IsStringLiteral(t) ==
  /\ Len(t) >= 2
  /\ t[1] \in {"\"", "'"}
  /\ t[Len(t)] \in {"\"", "'"}
  /\ \A i \in 1..Len(t) : t[i] # "\n"

(***************************************************************************)
(* String methods of JavaScript used by the statement classifier           *)
(***************************************************************************)
RECURSIVE TrimStart(_)
TrimStart(s) == IF s # <<>> /\ Head(s) \in WhiteSpace THEN TrimStart(Tail(s)) ELSE s

RECURSIVE TrimEnd(_)
TrimEnd(s) ==
  IF s # <<>> /\ s[Len(s)] \in WhiteSpace THEN TrimEnd(SubSeq(s, 1, Len(s) - 1)) ELSE s

\* s.trim()
Trim(s) == TrimEnd(TrimStart(s))

\* the sub-string of s of the length of sub that starts at position p (from 1)
At(s, p, sub) == p >= 1 /\ p + Len(sub) - 1 <= Len(s) /\ SubSeq(s, p, p + Len(sub) - 1) = sub

\* s.indexOf(sub) + 1: position of the first occurrence, 0 when there is none
IndexOf(s, sub) ==
  IF \E p \in 1..Len(s) : At(s, p, sub)
  THEN CHOOSE p \in 1..Len(s) : At(s, p, sub) /\ \A q \in 1..(p - 1) : ~At(s, q, sub)
  ELSE 0

\* s.includes(sub), s.startsWith(sub), s.endsWith(sub)
Includes(s, sub) == IndexOf(s, sub) > 0

StartsWith(s, sub) == At(s, 1, sub)

EndsWith(s, sub) == At(s, Len(s) - Len(sub) + 1, sub)

\* s.replace(sub, rep) with a string pattern: the first occurrence only
Replace(s, sub, rep) ==
  LET p == IndexOf(s, sub)
  IN IF p = 0 THEN s
     ELSE SubSeq(s, 1, p - 1) \o rep \o SubSeq(s, p + Len(sub), Len(s))

\* s.split(ch) for a one-character separator
RECURSIVE SplitLoop(_, _, _, _, _)
SplitLoop(s, i, ch, parts, current) ==
  IF i > Len(s) THEN Append(parts, current)
  ELSE IF s[i] = ch THEN SplitLoop(s, i + 1, ch, Append(parts, current), <<>>)
  ELSE SplitLoop(s, i + 1, ch, parts, Append(current, s[i]))

Split(s, ch) == SplitLoop(s, 1, ch, <<>>, <<>>)

\* s.split(/\s+/)
RECURSIVE SplitWsLoop(_, _, _, _, _)
SplitWsLoop(s, i, parts, current, inWs) ==
  IF i > Len(s) THEN Append(parts, current)
  ELSE IF s[i] \in WhiteSpace
       THEN IF inWs THEN SplitWsLoop(s, i + 1, parts, current, TRUE)
            ELSE SplitWsLoop(s, i + 1, Append(parts, current), <<>>, TRUE)
       ELSE SplitWsLoop(s, i + 1, parts, Append(current, s[i]), FALSE)

SplitWs(s) == SplitWsLoop(s, 1, <<>>, <<>>, FALSE)

\* c.toLowerCase(), c.toUpperCase() on the ASCII letters
LowerChar(c) ==
  IF \E i \in 1..26 : UpperLetters[i] = c
  THEN LowerLetters[CHOOSE i \in 1..26 : UpperLetters[i] = c] ELSE c

UpperChar(c) ==
  IF \E i \in 1..26 : LowerLetters[i] = c
  THEN UpperLetters[CHOOSE i \in 1..26 : LowerLetters[i] = c] ELSE c

ToLowerCase(s) == [i \in 1..Len(s) |-> LowerChar(s[i])]

ToUpperCase(s) == [i \in 1..Len(s) |-> UpperChar(s[i])]

\* position reached from q by skipping white space: \s*
RECURSIVE SkipWs(_, _)
SkipWs(s, q) == IF q <= Len(s) /\ s[q] \in WhiteSpace THEN SkipWs(s, q + 1) ELSE q

\* whether /kw\s*\((.*?)\)/ matches at position p of s, and the position of its ')'
OpenAt(s, p, kw) == SkipWs(s, p + Len(kw))

CloseOf(s, p, kw) ==
  LET q == OpenAt(s, p, kw)
  IN IF \E r \in (q + 1)..Len(s) : s[r] = ")"
     THEN CHOOSE r \in (q + 1)..Len(s) :
            s[r] = ")" /\ \A k \in (q + 1)..(r - 1) : s[k] # ")"
     ELSE 0

MatchesAt(s, p, kw) ==
  /\ At(s, p, kw)
  /\ OpenAt(s, p, kw) <= Len(s)
  /\ s[OpenAt(s, p, kw)] = "("
  /\ CloseOf(s, p, kw) > 0
  /\ \A k \in (OpenAt(s, p, kw) + 1)..(CloseOf(s, p, kw) - 1) : s[k] \notin {"\n", "\r"}

\* s.match(/kw\s*\((.*?)\)/)?.[1] || '': the group of the leftmost match
MatchParen(s, kw) ==
  IF \E p \in 1..Len(s) : MatchesAt(s, p, kw)
  THEN LET m == CHOOSE p \in 1..Len(s) :
                  MatchesAt(s, p, kw) /\ \A q \in 1..(p - 1) : ~MatchesAt(s, q, kw)
       IN SubSeq(s, OpenAt(s, m, kw) + 1, CloseOf(s, m, kw) - 1)
  ELSE <<>>

(***************************************************************************)
(* Nodes                                                                   *)
(***************************************************************************)
\* the JavaScript null
NULL == [type |-> "null"]

IsNull(n) == n.type = "null"

\* peek() at the end of the tokens: null
NoToken == <<>>

\* createNode / generateNodeId: st holds the id counter and the allocation serial
createNode(st, type, value, tokenType, children) ==
  [node |-> [id |-> st.ctr + 1, obj |-> st.heap + 1, type |-> type, value |-> value,
             tokenType |-> tokenType, children |-> children],
   st |-> [ctr |-> st.ctr + 1, heap |-> st.heap + 1]]

\* node.children.push(child)
Push(node, child) == [node EXCEPT !.children = Append(@, child)]

\* p.node.children.push(c.node), c made after p: the counters are those after c
attach(p, c) == [node |-> Push(p.node, c.node), st |-> c.st]

\* p.node.children.push(createNode(type, value, tokenType, []))
leafUnder(p, type, value, tokenType) ==
  attach(p, createNode(p.st, type, value, tokenType, <<>>))

(***************************************************************************)
(* tokenizeExpression                                                      *)
(***************************************************************************)
\* mutant: the pending buffer is dropped, not pushed
Flush_Drop(tokens, current) == tokens

\* if (current) { tokens.push(current); current = '' }
Flush(tokens, current) == IF current # <<>> THEN Append(tokens, current) ELSE tokens

RECURSIVE tokenizeLoop(_, _, _, _)
tokenizeLoop(text, i, tokens, current) ==
  IF i > Len(text)
  THEN Flush(tokens, current)
  ELSE IF text[i] \in WhiteSpace
       THEN tokenizeLoop(text, i + 1, Flush(tokens, current), <<>>)
       ELSE IF text[i] \in Glyphs
            THEN tokenizeLoop(text, i + 1, Append(Flush(tokens, current), <<text[i]>>), <<>>)
            ELSE tokenizeLoop(text, i + 1, tokens, Append(current, text[i]))

tokenizeExpression(text) ==
  SelectSeq(tokenizeLoop(text, 1, <<>>, <<>>), LAMBDA token : Len(token) > 0)

\* peek() and the index after consume(), index counted from 0 as in the source
Peek(tokens, index) == IF index < Len(tokens) THEN tokens[index + 1] ELSE NoToken

\* mutant: tokens[index++] without the test of the index
Consume_Unchecked(tokens, index) == index + 1

Consume(tokens, index) == IF index < Len(tokens) THEN index + 1 ELSE index

(***************************************************************************)
(* parseExpressionTokens: the expression-dialect parser.  Each function    *)
(* returns the node (or NULL), the cursor and the counters; hang is TRUE   *)
(* when the call never returns.  A result is handed on as an argument:     *)
(* `const x = f(); rest` is Rest(f()).                                     *)
(***************************************************************************)
\* the call never returns; st: the counters reached when it stopped advancing
Hang(st) == [hang |-> TRUE, st |-> st]

Ret(node, index, st) == [node |-> node, index |-> index, st |-> st, hang |-> FALSE]

\* the node c made, the cursor at index
Made(c, index) == Ret(c.node, index, c.st)

\* if (right) left = createNode('binary_op', operator, 'operator',
\*                              left ? [left, right] : [right])
Tok_fold(left, operator, r) ==
  IF r.hang THEN r
  ELSE IF IsNull(r.node) THEN Ret(left, r.index, r.st)
  ELSE Made(createNode(r.st, "binary_op", operator, "operator",
                       IF IsNull(left) THEN <<r.node>> ELSE <<left, r.node>>),
            r.index)

RECURSIVE Tok_parseAddSub(_, _, _), Tok_addSubLoop(_, _), Tok_parseMulDiv(_, _, _),
          Tok_mulDivLoop(_, _), Tok_parsePrimary(_, _, _), Tok_argLoop(_, _, _, _),
          Tok_argStep(_, _, _, _, _)

\* let left = parseMulDiv(); while ...; return left
Tok_parseAddSub(tokens, index, st) ==
  Tok_addSubLoop(tokens, Tok_parseMulDiv(tokens, index, st))

\* mutant: the right operand of + and - read by parsePrimary instead of parseMulDiv
Tok_addSubLoop_Flat(tokens, l) ==
  IF l.hang THEN l
  ELSE IF Peek(tokens, l.index) \in {<<"+">>, <<"-">>}
  THEN Tok_addSubLoop(tokens, Tok_fold(l.node, Peek(tokens, l.index),
                                       Tok_parsePrimary(tokens, l.index + 1, l.st)))
  ELSE l

\* while (peek() === '+' || peek() === '-') { operator = consume(); right = parseMulDiv(); ... }
Tok_addSubLoop(tokens, l) ==
  IF l.hang THEN l
  ELSE IF Peek(tokens, l.index) \in {<<"+">>, <<"-">>}
  THEN Tok_addSubLoop(tokens, Tok_fold(l.node, Peek(tokens, l.index),
                                       Tok_parseMulDiv(tokens, l.index + 1, l.st)))
  ELSE l

\* let left = parsePrimary(); while ...; return left
Tok_parseMulDiv(tokens, index, st) ==
  Tok_mulDivLoop(tokens, Tok_parsePrimary(tokens, index, st))

\* while (peek() === '*' || peek() === '/') { operator = consume(); right = parsePrimary(); ... }
Tok_mulDivLoop(tokens, l) ==
  IF l.hang THEN l
  ELSE IF Peek(tokens, l.index) \in {<<"*">>, <<"/">>}
  THEN Tok_mulDivLoop(tokens, Tok_fold(l.node, Peek(tokens, l.index),
                                       Tok_parsePrimary(tokens, l.index + 1, l.st)))
  ELSE l

\* while (peek() && peek() !== ')') { const arg = parseAddSub(); ... }
Tok_argLoop(tokens, index, st, args) ==
  IF Peek(tokens, index) = NoToken \/ Peek(tokens, index) = <<")">>
  THEN [args |-> args, index |-> index, st |-> st, hang |-> FALSE]
  ELSE Tok_argStep(tokens, index, st, args, Tok_parseAddSub(tokens, index, st))

\* the rest of one iteration: if (arg) args.push(arg); if (peek() === ',') consume();
\* An iteration that leaves index, args and the counter as they were is repeated
\* for ever: the loop never ends.
Tok_argStep(tokens, index, st, args, arg) ==
  IF arg.hang THEN arg
  ELSE LET args2 == IF IsNull(arg.node) THEN args ELSE Append(args, arg.node)
           index2 == IF Peek(tokens, arg.index) = <<",">> THEN arg.index + 1 ELSE arg.index
       IN IF index2 = index /\ args2 = args /\ arg.st = st
          THEN Hang(st)
          ELSE Tok_argLoop(tokens, index2, arg.st, args2)

\* mutant: a parenthesized expression gets a node of its own
Tok_closeParen_Group(tokens, e) ==
  IF e.hang THEN e
  ELSE Ret(Push(createNode(e.st, "group", <<"(", ")">>, "operator", <<>>).node, e.node),
           Consume(tokens, e.index),
           createNode(e.st, "group", <<"(", ")">>, "operator", <<>>).st)

\* consume(); return expr    (the ')' of a parenthesized expression)
Tok_closeParen(tokens, e) ==
  IF e.hang THEN e ELSE Ret(e.node, Consume(tokens, e.index), e.st)

\* consume(); return createNode('call_expression', token, 'identifier', args)
Tok_call(tokens, token, a) ==
  IF a.hang THEN a
  ELSE Made(createNode(a.st, "call_expression", token, "identifier", a.args),
            Consume(tokens, a.index))

Tok_parsePrimary(tokens, index, st) ==
  IF Peek(tokens, index) = NoToken THEN Ret(NULL, index, st)
  ELSE IF Peek(tokens, index) = <<"(">>
  THEN Tok_closeParen(tokens, Tok_parseAddSub(tokens, index + 1, st))
  ELSE IF IsNumber(Peek(tokens, index))
  THEN Made(createNode(st, "constant", Peek(tokens, index), "constant", <<>>), index + 1)
  ELSE IF IsIdentifier(Peek(tokens, index))
  THEN IF Peek(tokens, index + 1) = <<"(">>
       THEN Tok_call(tokens, Peek(tokens, index), Tok_argLoop(tokens, index + 2, st, <<>>))
       ELSE Made(createNode(st, "identifier", Peek(tokens, index), "identifier", <<>>),
                 index + 1)
  ELSE Ret(NULL, index, st)

parseExpressionTokens(tokens, st) == Tok_parseAddSub(tokens, 0, st)

\* return result || createNode('expression', input, 'constant', [])
orExpressionNode(text, r) ==
  IF r.hang THEN r
  ELSE IF IsNull(r.node)
  THEN Made(createNode(r.st, "expression", text, "constant", <<>>), r.index)
  ELSE r

\* export function parseExpression: nodeIdCounter = 0, then tokenize and parse
parseExpression(text, st) ==
  orExpressionNode(text, parseExpressionTokens(tokenizeExpression(text), [st EXCEPT !.ctr = 0]))

(***************************************************************************)
(* parseExpressionRecursive: the statement-level expression parser.  Each  *)
(* function returns the node, the cursor and the counters.                 *)
(***************************************************************************)
RetR(node, index, st) == [node |-> node, index |-> index, st |-> st]

MadeR(c, index) == RetR(c.node, index, c.st)

\* opNode = createNode('binary_op', operator, 'operator', []); push(left); push(right)
Rec_fold(l, operator, r) ==
  LET c == createNode(r.st, "binary_op", operator, "operator", <<>>)
  IN RetR(Push(Push(c.node, l.node), r.node), r.index, c.st)

RECURSIVE Rec_parseLogicalOr(_, _, _), Rec_logicalOrLoop(_, _),
          Rec_parseLogicalAnd(_, _, _), Rec_logicalAndLoop(_, _),
          Rec_parseEquality(_, _, _), Rec_equalityLoop(_, _),
          Rec_parseComparison(_, _, _), Rec_comparisonLoop(_, _),
          Rec_parseAddSub(_, _, _), Rec_addSubLoop(_, _),
          Rec_parseMulDiv(_, _, _), Rec_mulDivLoop(_, _),
          Rec_parseUnary(_, _, _), Rec_parsePrimary(_, _, _), Rec_argLoop(_, _)

Rec_parseLogicalOr(tokens, index, st) ==
  Rec_logicalOrLoop(tokens, Rec_parseLogicalAnd(tokens, index, st))

Rec_logicalOrLoop(tokens, l) ==
  IF Peek(tokens, l.index) = <<"|", "|">>
  THEN Rec_logicalOrLoop(tokens, Rec_fold(l, Peek(tokens, l.index),
                                          Rec_parseLogicalAnd(tokens, l.index + 1, l.st)))
  ELSE l

Rec_parseLogicalAnd(tokens, index, st) ==
  Rec_logicalAndLoop(tokens, Rec_parseEquality(tokens, index, st))

Rec_logicalAndLoop(tokens, l) ==
  IF Peek(tokens, l.index) = <<"&", "&">>
  THEN Rec_logicalAndLoop(tokens, Rec_fold(l, Peek(tokens, l.index),
                                           Rec_parseEquality(tokens, l.index + 1, l.st)))
  ELSE l

Rec_parseEquality(tokens, index, st) ==
  Rec_equalityLoop(tokens, Rec_parseComparison(tokens, index, st))

Rec_equalityLoop(tokens, l) ==
  IF Peek(tokens, l.index) \in {<<"=", "=">>, <<"!", "=">>}
  THEN Rec_equalityLoop(tokens, Rec_fold(l, Peek(tokens, l.index),
                                         Rec_parseComparison(tokens, l.index + 1, l.st)))
  ELSE l

Rec_parseComparison(tokens, index, st) ==
  Rec_comparisonLoop(tokens, Rec_parseAddSub(tokens, index, st))

Rec_comparisonLoop(tokens, l) ==
  IF Peek(tokens, l.index) \in {<<"<">>, <<">">>, <<"<", "=">>, <<">", "=">>}
  THEN Rec_comparisonLoop(tokens, Rec_fold(l, Peek(tokens, l.index),
                                           Rec_parseAddSub(tokens, l.index + 1, l.st)))
  ELSE l

Rec_parseAddSub(tokens, index, st) ==
  Rec_addSubLoop(tokens, Rec_parseMulDiv(tokens, index, st))

Rec_addSubLoop(tokens, l) ==
  IF Peek(tokens, l.index) \in {<<"+">>, <<"-">>}
  THEN Rec_addSubLoop(tokens, Rec_fold(l, Peek(tokens, l.index),
                                       Rec_parseMulDiv(tokens, l.index + 1, l.st)))
  ELSE l

Rec_parseMulDiv(tokens, index, st) ==
  Rec_mulDivLoop(tokens, Rec_parseUnary(tokens, index, st))

\* mutant: while (peek()): whatever token follows is taken for an operator
Rec_mulDivLoop_Any(tokens, l) ==
  IF Peek(tokens, l.index) # NoToken
  THEN Rec_mulDivLoop(tokens, Rec_fold(l, Peek(tokens, l.index),
                                       Rec_parseUnary(tokens, l.index + 1, l.st)))
  ELSE l

Rec_mulDivLoop(tokens, l) ==
  IF Peek(tokens, l.index) \in {<<"*">>, <<"/">>, <<"%">>}
  THEN Rec_mulDivLoop(tokens, Rec_fold(l, Peek(tokens, l.index),
                                       Rec_parseUnary(tokens, l.index + 1, l.st)))
  ELSE l

\* unaryNode = createNode('unary_op', operator, 'operator', []); push(operand)
Rec_unary(operator, operand) ==
  LET c == createNode(operand.st, "unary_op", operator, "operator", <<>>)
  IN RetR(Push(c.node, operand.node), operand.index, c.st)

Rec_parseUnary(tokens, index, st) ==
  IF Peek(tokens, index) \in {<<"-">>, <<"!">>, <<"+", "+">>, <<"-", "-">>}
  THEN Rec_unary(Peek(tokens, index), Rec_parseUnary(tokens, index + 1, st))
  ELSE Rec_parsePrimary(tokens, index, st)

\* callNode.children.push(arg); if (peek() === ',') consume();
Rec_argStep(tokens, a, arg) ==
  MadeR(attach(a, arg),
        IF Peek(tokens, arg.index) = <<",">> THEN arg.index + 1 ELSE arg.index)

\* while (peek() && peek() !== ')') { const arg = parseLogicalOr(); ... }
\* a holds the call node, the cursor and the counters
Rec_argLoop(tokens, a) ==
  IF Peek(tokens, a.index) = NoToken \/ Peek(tokens, a.index) = <<")">>
  THEN a
  ELSE Rec_argLoop(tokens, Rec_argStep(tokens, a, Rec_parseLogicalOr(tokens, a.index, a.st)))

\* consume(); return expr / return callNode    (the closing ')')
Rec_closeParen(tokens, e) == RetR(e.node, Consume(tokens, e.index), e.st)

Rec_parsePrimary(tokens, index, st) ==
  IF Peek(tokens, index) = NoToken
  THEN MadeR(createNode(st, "identifier", <<>>, "identifier", <<>>), index)
  ELSE IF Peek(tokens, index) = <<"(">>
  THEN Rec_closeParen(tokens, Rec_parseLogicalOr(tokens, index + 1, st))
  ELSE IF IsNumber(Peek(tokens, index))
  THEN MadeR(createNode(st, "constant", Peek(tokens, index), "constant", <<>>), index + 1)
  ELSE IF IsStringLiteral(Peek(tokens, index))
  THEN MadeR(createNode(st, "constant", Peek(tokens, index), "constant", <<>>), index + 1)
  ELSE IF IsIdentifier(Peek(tokens, index))
  THEN IF Peek(tokens, index + 1) = <<"(">>
       THEN Rec_closeParen(tokens,
              Rec_argLoop(tokens,
                MadeR(createNode(st, "call_expression", Peek(tokens, index), "identifier",
                                 <<>>),
                      index + 2)))
       ELSE MadeR(createNode(st, "identifier", Peek(tokens, index), "identifier", <<>>),
                  index + 1)
  \* default fallback: consume(); createNode('identifier', token, ...)
  ELSE MadeR(createNode(st, "identifier", Peek(tokens, index), "identifier", <<>>),
             index + 1)

parseExpressionRecursive(text, st) == Rec_parseLogicalOr(tokenizeExpression(text), 0, st)

(***************************************************************************)
(* The statement classifier.  A function returns the node and the counters.*)
(***************************************************************************)
declKeywords ==
  {<<"i", "n", "t">>, <<"f", "l", "o", "a", "t">>, <<"d", "o", "u", "b", "l", "e">>,
   <<"c", "h", "a", "r">>, <<"v", "o", "i", "d">>, <<"b", "o", "o", "l">>,
   <<"s", "t", "r", "i", "n", "g">>}

Last(seq) == seq[Len(seq)]

isVariableDeclaration(statement) ==
  ToLowerCase(SplitWs(Trim(statement))[1]) \in declKeywords

isFunctionDeclaration(statement) ==
  /\ Includes(statement, <<"(">>)
  /\ Includes(statement, <<")">>)
  /\ \/ Includes(statement, <<"{">>)
     \/ EndsWith(statement, <<")">>)
     \/ EndsWith(statement, <<";">>)

\* p.node.children.push(parseExpressionRecursive(text))
parsedUnder(p, text) == attach(p, parseExpressionRecursive(text, p.st))

\* if (text) node.children.push(parseExpressionRecursive(text))
pushParsed(p, text) == IF text # <<>> THEN parsedUnder(p, text) ELSE p

\* if (rightPart) { initNode = createNode('assignment', '=', 'operator', []);
\*   initNode.children.push(createNode('identifier', varName, ...));
\*   initNode.children.push(parseExpressionRecursive(rightPart)); declNode.children.push(initNode) }
withInit(d, varName, rightPart) ==
  IF rightPart # <<>>
  THEN attach(d, parsedUnder(leafUnder(createNode(d.st, "assignment", <<"=">>, "operator",
                                                  <<>>),
                                       "identifier", varName, "identifier"),
                             rightPart))
  ELSE d

\* declNode with its keyword and identifier children, then the initializer
declOf(type, varName, rightPart, st) ==
  withInit(leafUnder(leafUnder(createNode(st, "variable_declaration",
                                          type \o <<" ">> \o varName, "keyword", <<>>),
                               "keyword", type, "keyword"),
                     "identifier", varName, "identifier"),
           varName, rightPart)

\* parts = cleanStmt.split('='); leftPart = parts[0].trim(); rightPart = parts[1]?.trim()
\* (the empty string stands for undefined as well: both are falsy)
declParts(parts, st) ==
  declOf(SplitWs(Trim(parts[1]))[1], Last(SplitWs(Trim(parts[1]))),
         IF Len(parts) >= 2 THEN Trim(parts[2]) ELSE <<>>, st)

parseVariableDeclaration(statement, st) ==
  declParts(Split(Trim(Replace(statement, <<";">>, <<>>)), "="), st)

\* paramNode = createNode('declaration', `${paramType} ${paramName}`, 'identifier', [])
\* with its keyword and identifier children, pushed to the parameter list
paramUnder(acc, paramType, paramName) ==
  attach(acc, leafUnder(leafUnder(createNode(acc.st, "declaration",
                                             paramType \o <<" ">> \o paramName,
                                             "identifier", <<>>),
                                  "keyword", paramType, "keyword"),
                        "identifier", paramName, "identifier"))

\* for (const param of paramList): acc holds the parameter_list node and the counters
RECURSIVE paramLoop(_, _, _)
paramLoop(paramList, i, acc) ==
  IF i > Len(paramList) THEN acc
  ELSE IF Len(SplitWs(Trim(paramList[i]))) >= 2
  THEN paramLoop(paramList, i + 1,
                 paramUnder(acc, SplitWs(Trim(paramList[i]))[1], SplitWs(Trim(paramList[i]))[2]))
  ELSE paramLoop(paramList, i + 1, acc)

\* if (paramListNode.children.length > 0) functionNode.children.push(paramListNode)
pushParams(f, ps) ==
  [node |-> IF Len(ps.node.children) > 0 THEN Push(f.node, ps.node) ELSE f.node,
   st |-> ps.st]

\* if (paramsPart.trim()) { paramListNode = createNode('parameter_list', ...); ... }
withParams(f, paramsPart) ==
  IF Trim(paramsPart) # <<>>
  THEN pushParams(f, paramLoop(Split(paramsPart, ","), 1,
                               createNode(f.st, "parameter_list", <<"P", "a", "r", "a", "m", "e", "t", "e", "r", "s">>, "keyword",
                                          <<>>)))
  ELSE f

\* if (returnType !== 'void') functionNode.children.push(createNode('keyword', returnType, ...))
withReturnType(f, returnType) ==
  IF returnType # <<"v", "o", "i", "d">> THEN leafUnder(f, "keyword", returnType, "keyword") ELSE f

functionOf(leftTokens, paramsPart, st) ==
  withParams(
    leafUnder(withReturnType(createNode(st, "function_declaration",
                                        <<"F", "u", "n", "c", "t", "i", "o", "n", ":", " ">> \o Last(leftTokens), "keyword", <<>>),
                             IF Len(leftTokens) > 1 THEN leftTokens[1] ELSE <<"v", "o", "i", "d">>),
              "identifier", Last(leftTokens), "identifier"),
    paramsPart)

\* parts = statement.split('('); leftPart = parts[0].trim();
\* paramsPart = parts[1]?.split(')')[0] || ''
functionParts(parts, st) ==
  functionOf(SplitWs(Trim(parts[1])),
             IF Len(parts) >= 2 THEN Split(parts[2], ")")[1] ELSE <<>>, st)

parseFunctionDeclaration(statement, st) == functionParts(Split(statement, "("), st)

parseWhileStatement(statement, st) ==
  pushParsed(createNode(st, "while_statement", <<"w", "h", "i", "l", "e">>, "keyword", <<>>),
             MatchParen(statement, <<"w", "h", "i", "l", "e">>))

parseIfStatement(statement, st) ==
  pushParsed(createNode(st, "if_statement", <<"i", "f">>, "keyword", <<>>),
             MatchParen(statement, <<"i", "f">>))

\* if (part) { c = createNode('statement', label, 'keyword', []);
\*             c.children.push(parseExpressionRecursive(part)); forNode.children.push(c) }
forPart(f, part, label) ==
  IF part # <<>>
  THEN attach(f, parsedUnder(createNode(f.st, "statement", label, "keyword", <<>>), part))
  ELSE f

\* parts = forContent.split(';').map(p => p.trim()); if (parts.length >= 3) ...
forParts(f, forContent, parts) ==
  IF forContent # <<>> /\ Len(parts) >= 3
  THEN forPart(forPart(forPart(f, Trim(parts[1]), <<"I", "n", "i", "t">>), Trim(parts[2]), <<"C", "o", "n", "d", "i", "t", "i", "o", "n">>),
               Trim(parts[3]), <<"U", "p", "d", "a", "t", "e">>)
  ELSE f

forOf(forContent, st) ==
  forParts(createNode(st, "for_statement", <<"f", "o", "r">>, "keyword", <<>>), forContent,
           Split(forContent, ";"))

parseForStatement(statement, st) == forOf(MatchParen(statement, <<"f", "o", "r">>), st)

parseReturnStatement(statement, st) ==
  pushParsed(createNode(st, "return_statement", <<"r", "e", "t", "u", "r", "n">>, "keyword", <<>>),
             Replace(Trim(Replace(statement, <<"r", "e", "t", "u", "r", "n">>, <<>>)), <<";">>, <<>>))

\* variable = parts[0].trim(); value = parts[1]?.trim().replace(';', '') || ''
assignmentOf(parts, st) ==
  pushParsed(leafUnder(createNode(st, "assignment", <<"=">>, "operator", <<>>),
                       "identifier", Trim(parts[1]), "identifier"),
             IF Len(parts) >= 2 THEN Replace(Trim(parts[2]), <<";">>, <<>>) ELSE <<>>)

parseAssignment(statement, st) == assignmentOf(Split(statement, "="), st)

parseExpressionStatement(statement, st) ==
  parseExpressionRecursive(Trim(Replace(statement, <<";">>, <<>>)), st)

\* mutant: the function rule is tried before the declaration rule
parseStatement_FunctionFirst(statement, st) ==
  IF isFunctionDeclaration(statement) THEN parseFunctionDeclaration(statement, st)
  ELSE IF isVariableDeclaration(statement) THEN parseVariableDeclaration(statement, st)
  ELSE IF StartsWith(statement, <<"i", "f">>) THEN parseIfStatement(statement, st)
  ELSE IF StartsWith(statement, <<"w", "h", "i", "l", "e">>) THEN parseWhileStatement(statement, st)
  ELSE IF StartsWith(statement, <<"f", "o", "r">>) THEN parseForStatement(statement, st)
  ELSE IF StartsWith(statement, <<"r", "e", "t", "u", "r", "n">>) THEN parseReturnStatement(statement, st)
  ELSE IF /\ Includes(statement, <<"=">>)
          /\ ~Includes(statement, <<"=", "=">>)
       THEN parseAssignment(statement, st)
  ELSE parseExpressionStatement(statement, st)

parseStatement(statement, st) ==
  IF isVariableDeclaration(statement) THEN parseVariableDeclaration(statement, st)
  ELSE IF isFunctionDeclaration(statement) THEN parseFunctionDeclaration(statement, st)
  ELSE IF StartsWith(statement, <<"i", "f">>) THEN parseIfStatement(statement, st)
  ELSE IF StartsWith(statement, <<"w", "h", "i", "l", "e">>) THEN parseWhileStatement(statement, st)
  ELSE IF StartsWith(statement, <<"f", "o", "r">>) THEN parseForStatement(statement, st)
  ELSE IF StartsWith(statement, <<"r", "e", "t", "u", "r", "n">>) THEN parseReturnStatement(statement, st)
  ELSE IF /\ Includes(statement, <<"=">>)
          /\ ~Includes(statement, <<"=", "=">>)
          /\ ~isVariableDeclaration(statement)
       THEN parseAssignment(statement, st)
  ELSE parseExpressionStatement(statement, st)

(***************************************************************************)
(* The tree assembler: parseCode                                           *)
(***************************************************************************)
expression == <<"e", "x", "p", "r", "e", "s", "s", "i", "o", "n">>

\* if (parsed) push it to functions, declarations or statements, by its type
bucket(b, parsed) ==
  IF parsed.node.type = "function_declaration"
  THEN [b EXCEPT !.functions = Append(@, parsed.node), !.st = parsed.st]
  ELSE IF parsed.node.type = "variable_declaration"
  THEN [b EXCEPT !.declarations = Append(@, parsed.node), !.st = parsed.st]
  ELSE [b EXCEPT !.statements = Append(@, parsed.node), !.st = parsed.st]

RECURSIVE lineLoop(_, _, _)
\* if (parsed) { ... }: a line whose statement is null is left out of every bucket
categorise(lines, i, b, parsed) ==
  IF IsNull(parsed.node) THEN lineLoop(lines, i + 1, [b EXCEPT !.st = parsed.st])
  ELSE lineLoop(lines, i + 1, bucket(b, parsed))

\* for (const line of lines): b holds the program node, the three buckets and the counters
lineLoop(lines, i, b) ==
  IF i > Len(lines) THEN b
  ELSE IF \/ Trim(lines[i]) = <<>>
          \/ StartsWith(Trim(lines[i]), <<"/", "/">>)
          \/ StartsWith(Trim(lines[i]), <<"#">>)
  THEN lineLoop(lines, i + 1, b)
  ELSE categorise(lines, i, b, parseStatement(Trim(lines[i]), b.st))

\* mutant: the counter set back to 0 before the group node is made
groupUnder_Reset(p, type, label, members) ==
  IF Len(members) > 0
  THEN attach(p, createNode([p.st EXCEPT !.ctr = 0], type, label, "keyword", members))
  ELSE p

\* if (members.length > 0) programNode.children.push(createNode(type, label, 'keyword', members))
groupUnder(p, type, label, members) ==
  IF Len(members) > 0 THEN attach(p, createNode(p.st, type, label, "keyword", members)) ELSE p

\* functions.forEach(func => programNode.children.push(func))
functionsUnder(b) == [node |-> [b.node EXCEPT !.children = @ \o b.functions], st |-> b.st]

\* mutant: the statements group pushed before the declarations group
assemble_StatementsFirst(b) ==
  groupUnder(groupUnder(functionsUnder(b), "statements", <<"S", "t", "a", "t", "e", "m", "e", "n", "t", "s">>, b.statements),
             "declarations", <<"D", "e", "c", "l", "a", "r", "a", "t", "i", "o", "n", "s">>, b.declarations)

\* the program node of a line-oriented dialect, from the three buckets
assemble(b) ==
  groupUnder(groupUnder(functionsUnder(b), "declarations", <<"D", "e", "c", "l", "a", "r", "a", "t", "i", "o", "n", "s">>, b.declarations),
             "statements", <<"S", "t", "a", "t", "e", "m", "e", "n", "t", "s">>, b.statements)

\* the value a call returns
Returned(r) == [node |-> r.node, st |-> r.st, hang |-> FALSE]

\* programNode = createNode('program', 'Program', ...);
\* programNode.children.push(createNode('statements', 'Expressions', 'keyword', [exprNode]))
programOf(e) ==
  IF e.hang THEN e
  ELSE Returned(groupUnder(createNode(e.st, "program", <<"P", "r", "o", "g", "r", "a", "m">>, "keyword", <<>>),
                           "statements", <<"E", "x", "p", "r", "e", "s", "s", "i", "o", "n", "s">>, <<e.node>>))

\* the empty buckets under the program node p
buckets(p) ==
  [node |-> p.node, functions |-> <<>>, declarations |-> <<>>, statements |-> <<>>,
   st |-> p.st]

\* mutant: parseCode goes on with the counter it finds
resetCounter_Keep(st) == st

\* nodeIdCounter = 0 at the start of parseCode
resetCounter(st) == [st EXCEPT !.ctr = 0]

parseCode(text, lang, st) ==
  IF lang = expression
  THEN programOf(parseExpression(text, resetCounter(st)))
  ELSE Returned(assemble(
         lineLoop(SelectSeq(Split(text, "\n"), LAMBDA line : Trim(line) # <<>>), 1,
                  buckets(createNode(resetCounter(st), "program",
                                     ToUpperCase(lang) \o <<" ", "P", "r", "o", "g", "r", "a", "m">>, "keyword", <<>>)))))

(***************************************************************************)
(* The calls.  The caller (CodeInput / Index.handleGenerate) hands a text  *)
(* and a dialect to parseCode; parseExpression is exported as well.  A     *)
(* call runs to its end in one step, or never returns.                     *)
(***************************************************************************)
Languages == {expression, <<"c">>, <<"p", "y", "t", "h", "o", "n">>, <<"j", "a", "v", "a">>}

NoTree == [type |-> "none"]

NoCall == [entry |-> "none"]

\* the heap serial starts afresh with each call: only the objects of one tree are compared
Fresh == [ctr |-> nodeIdCounter, heap |-> 0]

Returns(r) ==
  /\ nodeIdCounter' = r.st.ctr
  /\ status' = IF r.hang THEN "hung" ELSE "returned"
  /\ result' = IF r.hang THEN NoTree ELSE r.node
  /\ first' = IF first = NoCall /\ ~r.hang
              THEN [entry |-> entry, input |-> input, language |-> language, tree |-> r.node]
              ELSE first
  /\ calls' = IF r.hang THEN calls ELSE calls + 1
  /\ UNCHANGED <<input, language, entry, given>>

ParseCodeCall ==
  /\ status = "ready"
  /\ entry = "parseCode"
  /\ Returns(parseCode(input, language, Fresh))

ParseExpressionCall ==
  /\ status = "ready"
  /\ entry = "parseExpression"
  /\ Returns(parseExpression(input, Fresh))

\* the state in which the caller is about to make the call c
Ready(c) ==
  /\ input = c.input
  /\ language = c.language
  /\ entry = c.entry
  /\ given = c.given
  /\ status = "ready"
  /\ result = NoTree

\* the module has just been loaded and the first call is one of family
Start(family) ==
  /\ nodeIdCounter = 0
  /\ first = NoCall
  /\ calls = 0
  /\ \E c \in family : Ready(c)

Call(e, text, lang, g) == [entry |-> e, input |-> text, language |-> lang, given |-> g]

(***************************************************************************)
(* Reading a returned tree                                                 *)
(***************************************************************************)
\* a node without its id and its object identity
RECURSIVE Shape(_)
Shape(node) ==
  [type |-> node.type, value |-> node.value, tokenType |-> node.tokenType,
   children |-> [i \in 1..Len(node.children) |-> Shape(node.children[i])]]

RECURSIVE Flatten(_)
Flatten(seqs) == IF seqs = <<>> THEN <<>> ELSE Head(seqs) \o Flatten(Tail(seqs))

\* the nodes of a tree, the root first, every path counted
RECURSIVE Nodes(_)
Nodes(node) ==
  <<node>> \o Flatten([i \in 1..Len(node.children) |-> Nodes(node.children[i])])

\* no value stands twice in seq
Distinct(seq) == Cardinality(Range(seq)) = Len(seq)

Leaf(type, value, tokenType) ==
  [type |-> type, value |-> value, tokenType |-> tokenType, children |-> <<>>]

Inner(type, value, tokenType, children) ==
  [type |-> type, value |-> value, tokenType |-> tokenType, children |-> children]

(***************************************************************************)
(* Texts of the expression dialect, character by character                 *)
(***************************************************************************)
MaxRawLen == 4

RawAlphabet == {"1", "f", "(", ")", "+", "*", ",", " "}

RawTexts == UNION {[1..n -> RawAlphabet] : n \in 0..MaxRawLen}

RawCalls ==
  {Call("parseCode", text, expression, [kind |-> "raw"]) : text \in RawTexts}

InitRaw == Start(RawCalls)

SpecRaw == InitRaw /\ [][ParseCodeCall]_vars

\* C1: every call parseCode(input, language) runs to completion and returns a
\* tree; the argument loop of a call expression ends for every token sequence.
C1_EveryCallReturns == status # "hung"

\* C2: for every input and dialect parseCode signals no failure and returns a
\* 'program' node; in the expression dialect the root has exactly one child, a
\* 'statements' group whose only child is the parsed expression.
C2_ProgramRoot ==
  status # "ready" =>
    /\ status = "returned"
    /\ result.type = "program"
    /\ language = expression =>
         /\ Len(result.children) = 1
         /\ result.children[1].type = "statements"
         /\ Len(result.children[1].children) = 1
         /\ result.children[1].children[1].type \in
              {"binary_op", "constant", "identifier", "call_expression", "expression"}

(***************************************************************************)
(* Arithmetic expressions: numeric literals, + - * / and parentheses,      *)
(* written from a tree.  The literals are numbered from left to right.     *)
(***************************************************************************)
MaxOps == 3

Numerals == <<<<"1">>, <<"2", "3">>, <<"4", ".", "5">>, <<"6">>, <<"7">>, <<"8">>, <<"9">>>>

ArithOps == {"+", "-", "*", "/"}

\* the trees with n operators, the literals not yet chosen
RECURSIVE ArithShapes(_)
ArithShapes(n) ==
  IF n = 0 THEN {Leaf("constant", <<>>, "constant")}
  ELSE UNION {{Inner("binary_op", <<op>>, "operator", <<l, r>>) :
                 op \in ArithOps, l \in ArithShapes(k), r \in ArithShapes(n - 1 - k)} :
              k \in 0..(n - 1)}

\* the k-th and following literals put in the leaves of t, left to right
RECURSIVE Numbered(_, _)
Numbered(t, k) ==
  IF t.type = "constant" THEN [tree |-> [t EXCEPT !.value = Numerals[k]], next |-> k + 1]
  ELSE LET l == Numbered(t.children[1], k)
           r == Numbered(t.children[2], l.next)
       IN [tree |-> [t EXCEPT !.children = <<l.tree, r.tree>>], next |-> r.next]

Prec(t) == IF t.type = "constant" THEN 3 ELSE IF t.value[1] \in {"*", "/"} THEN 2 ELSE 1

\* the tokens of t; an operand is parenthesized when precedence and left
\* associativity require it ("min") or whenever it is an operation ("full")
RECURSIVE Written(_, _)
Written(t, style) ==
  IF t.type = "constant" THEN <<t.value>>
  ELSE LET l == t.children[1]
           r == t.children[2]
           wrapL == IF style = "full" THEN l.type # "constant" ELSE Prec(l) < Prec(t)
           wrapR == IF style = "full" THEN r.type # "constant" ELSE Prec(r) <= Prec(t)
           wl == IF wrapL THEN <<<<"(">>>> \o Written(l, style) \o <<<<")">>>> ELSE Written(l, style)
           wr == IF wrapR THEN <<<<"(">>>> \o Written(r, style) \o <<<<")">>>> ELSE Written(r, style)
       IN wl \o <<t.value>> \o wr

\* the tokens as one text, a blank between tokens or none
RECURSIVE Joined(_, _)
Joined(tokens, sep) ==
  IF tokens = <<>> THEN <<>>
  ELSE IF Len(tokens) = 1 THEN tokens[1]
  ELSE tokens[1] \o sep \o Joined(Tail(tokens), sep)

ArithCalls ==
  {Call("parseExpression", Joined(Written(Numbered(t, 1).tree, style), sep), expression,
        [kind |-> "arith", tree |-> Numbered(t, 1).tree, style |-> style]) :
     t \in UNION {ArithShapes(n) : n \in 0..MaxOps},
     style \in {"min", "full"}, sep \in {<<>>, <<" ">>}}

InitArith == Start(ArithCalls)

SpecArith == InitArith /\ [][ParseExpressionCall]_vars

\* C3: for an arithmetic expression of numeric literals, + - * / and balanced
\* parentheses parseExpression returns the tree the expression was written
\* from: operands grouped by parentheses, then by precedence (* and / before
\* + and -), then from left to right.
C3_PrecedenceAndGrouping ==
  status # "ready" => status = "returned" /\ Shape(result) = given.tree

\* "2+3*4" and "(1+2)*3" have been parsed
C3_Witness ==
  /\ status = "returned"
  /\ given.style = "min"
  /\ Len(given.tree.children) = 2
  /\ \/ /\ given.tree.value = <<"*">>
        /\ given.tree.children[1].value = <<"+">>
        /\ Len(result.children[1].children) = 2
        /\ input = <<"(", "1", "+", "2", "3", ")", "*", "4", ".", "5">>
     \/ /\ given.tree.value = <<"+">>
        /\ given.tree.children[2].value = <<"*">>
        /\ input = <<"1", "+", "2", "3", "*", "4", ".", "5">>

(***************************************************************************)
(* Calls written with comma-separated arguments, handed to parseCode as an *)
(* expression (parseExpressionTokens) and as the initializer of a          *)
(* declaration line (parseExpressionRecursive).                            *)
(***************************************************************************)
MaxArgs == 3

CallArgs == {<<"1">>, <<"2">>, <<"3">>}

ArgLists == UNION {[1..n -> CallArgs] : n \in 0..MaxArgs}

\* the comma written alone, followed by a blank, or between blanks
Commas == {<<",">>, <<",", " ">>, <<" ", ",", " ">>}

CallText(callee, args, comma) == callee \o <<"(">> \o Joined(args, comma) \o <<")">>

CallCalls ==
  {Call("parseCode", CallText(<<"f">>, args, comma), expression,
        [kind |-> "call", where |-> "expression", callee |-> <<"f">>, args |-> args,
         comma |-> comma]) : args \in ArgLists, comma \in Commas}
  \cup
  {Call("parseCode", <<"i", "n", "t", " ", "y", " ", "=", " ">> \o CallText(<<"f">>, args, comma) \o <<";">>, <<"c">>,
        [kind |-> "call", where |-> "declaration", callee |-> <<"f">>, args |-> args,
         comma |-> comma]) : args \in ArgLists, comma \in Commas}

InitCall == Start(CallCalls)

SpecCall == InitCall /\ [][ParseCodeCall]_vars

\* the node the call was parsed to: the expression under program / statements,
\* or the second child of the assignment under program / declarations /
\* variable_declaration
CallNode ==
  IF given.where = "expression"
  THEN result.children[1].children[1]
  ELSE result.children[1].children[1].children[3].children[2]

\* C4: a call written with n comma-separated arguments yields a call_expression
\* node whose value is the callee name and which has exactly n children, the
\* arguments in source order ("f(1,2,3)": call 'f' over constants 1, 2, 3).
C4_CallArity ==
  status # "ready" =>
    /\ status = "returned"
    /\ CallNode.type = "call_expression"
    /\ CallNode.value = given.callee
    /\ Len(CallNode.children) = Len(given.args)
    /\ \A i \in 1..Len(given.args) :
         /\ CallNode.children[i].type = "constant"
         /\ CallNode.children[i].value = given.args[i]
(***************************************************************************)
(* Single lines of the line-oriented dialects, written from their parts:   *)
(* if / while lines, function headers and initialized declarations.        *)
(***************************************************************************)
LineDialects == {<<"c">>, <<"p", "y", "t", "h", "o", "n">>, <<"j", "a", "v", "a">>}

Id(name) == Leaf("identifier", name, "identifier")

Num(text) == Leaf("constant", text, "constant")

Bin(operator, l, r) == Inner("binary_op", operator, "operator", <<l, r>>)

\* expressions, tokens apart, each with the tree it denotes
Comparisons ==
  {[text |-> <<"x", " ", ">", " ", "0">>, tree |-> Bin(<<">">>, Id(<<"x">>), Num(<<"0">>))],
   [text |-> <<"n", " ", "<", " ", "1", "0">>, tree |-> Bin(<<"<">>, Id(<<"n">>), Num(<<"1", "0">>))],
   [text |-> <<"a", " ", "=", "=", " ", "b">>, tree |-> Bin(<<"=", "=">>, Id(<<"a">>), Id(<<"b">>))],
   [text |-> <<"a", " ", ">", "=", " ", "b">>, tree |-> Bin(<<">", "=">>, Id(<<"a">>), Id(<<"b">>))]}

Sums ==
  {[text |-> <<"5">>, tree |-> Num(<<"5">>)],
   [text |-> <<"x">>, tree |-> Id(<<"x">>)],
   [text |-> <<"a", " ", "+", " ", "b">>, tree |-> Bin(<<"+">>, Id(<<"a">>), Id(<<"b">>))],
   [text |-> <<"2", " ", "*", " ", "n", " ", "-", " ", "1">>, tree |-> Bin(<<"-">>, Bin(<<"*">>, Num(<<"2">>), Id(<<"n">>)), Num(<<"1">>))]}

\* "if (x > 0)", "while(n < 10) {", "if (a == b):", ...
CondCalls ==
  {Call("parseCode", keyword \o gap \o <<"(">> \o c.text \o <<")">> \o ending, lang,
        [kind |-> "cond", keyword |-> keyword, tree |-> c.tree, ending |-> ending]) :
     keyword \in {<<"i", "f">>, <<"w", "h", "i", "l", "e">>}, gap \in {<<>>, <<" ">>},
     c \in Comparisons \cup {[text |-> <<"x">>, tree |-> Id(<<"x">>)]},
     ending \in {<<>>, <<":">>, <<" ", "{">>}, lang \in LineDialects}

MaxParams == 2

Params == {[type |-> <<"i", "n", "t">>, name |-> <<"a">>], [type |-> <<"i", "n", "t">>, name |-> <<"b">>],
           [type |-> <<"f", "l", "o", "a", "t">>, name |-> <<"x">>]}

ParamLists == UNION {[1..n -> Params] : n \in 0..MaxParams}

ParamTexts(ps) == [i \in 1..Len(ps) |-> ps[i].type \o <<" ">> \o ps[i].name]

\* "int add(int a, int b) {", "void f()", "float add(float x);", ...
HeaderCalls ==
  {Call("parseCode",
        type \o <<" ">> \o name \o <<"(">> \o Joined(ParamTexts(ps), <<",", " ">>) \o <<")">> \o ending, lang,
        [kind |-> "header", type |-> type, name |-> name, params |-> ps,
         ending |-> ending]) :
     type \in {<<"i", "n", "t">>, <<"f", "l", "o", "a", "t">>, <<"v", "o", "i", "d">>}, name \in {<<"a", "d", "d">>, <<"f">>}, ps \in ParamLists,
     ending \in {<<" ", "{">>, <<>>, <<";">>}, lang \in {<<"c">>, <<"j", "a", "v", "a">>}}

\* "int x = 5;", "bool total = a >= b;", ...
DeclCalls ==
  {Call("parseCode", type \o <<" ">> \o name \o <<" ", "=", " ">> \o e.text \o <<";">>, lang,
        [kind |-> "decl", type |-> type, name |-> name, tree |-> e.tree, text |-> e.text]) :
     type \in declKeywords, name \in {<<"x">>, <<"t", "o", "t", "a", "l">>}, e \in Sums \cup Comparisons,
     lang \in {<<"c">>, <<"j", "a", "v", "a">>}}

InitLine == Start(CondCalls \cup HeaderCalls \cup DeclCalls)

SpecLine == InitLine /\ [][ParseCodeCall]_vars

\* the node of the only line, when it is the only member of the group under the root
OnlyIn(group) ==
  IF /\ Len(result.children) = 1
     /\ result.children[1].type = group
     /\ Len(result.children[1].children) = 1
  THEN result.children[1].children[1]
  ELSE NULL

\* C5: a line that starts with 'if' or 'while' followed by a parenthesized
\* condition yields an if_statement / while_statement node whose sole child is
\* the parse of the condition ("if (x > 0)": binary_op '>' over identifier x
\* and constant 0).
C5_ConditionLine ==
  given.kind = "cond" /\ status # "ready" =>
    /\ status = "returned"
    /\ OnlyIn("statements").type =
         (IF given.keyword = <<"i", "f">> THEN "if_statement" ELSE "while_statement")
    /\ Len(OnlyIn("statements").children) = 1
    /\ Shape(OnlyIn("statements").children[1]) = given.tree

\* the node of the only line, when it stands directly under the root
OnlyFunction == IF Len(result.children) = 1 THEN result.children[1] ELSE NULL

\* C6: a function header whose return type is a type keyword
\* ("int add(int a, int b) {") is classified as a function_declaration: its
\* name is the last token before '(', its return type the text before the
\* name, and each '<type> <name>' parameter is one declaration under a
\* parameter_list.
C6_FunctionHeader ==
  given.kind = "header" /\ status # "ready" =>
    /\ status = "returned"
    /\ OnlyFunction.type = "function_declaration"
    /\ \E i \in 1..Len(OnlyFunction.children) :
         Shape(OnlyFunction.children[i]) = Id(given.name)
    /\ given.type # <<"v", "o", "i", "d">> =>
         Shape(OnlyFunction.children[1]) = Leaf("keyword", given.type, "keyword")
    /\ given.params # <<>> =>
         \E i \in 1..Len(OnlyFunction.children) :
           /\ OnlyFunction.children[i].type = "parameter_list"
           /\ Len(OnlyFunction.children[i].children) = Len(given.params)
           /\ \A k \in 1..Len(given.params) :
                /\ OnlyFunction.children[i].children[k].type = "declaration"
                /\ OnlyFunction.children[i].children[k].value = ParamTexts(given.params)[k]

\* C7: the line "<type> <name> = <expr>;" with <type> a type keyword yields a
\* variable_declaration whose children are a keyword node <type>, an identifier
\* node <name>, and an assignment node over identifier <name> and the parse of
\* <expr> ("int x = 5;": constant 5).
C7_InitializedDeclaration ==
  given.kind = "decl" /\ status # "ready" =>
    /\ status = "returned"
    /\ OnlyIn("declarations").type = "variable_declaration"
    /\ Len(OnlyIn("declarations").children) = 3
    /\ Shape(OnlyIn("declarations").children[1]) = Leaf("keyword", given.type, "keyword")
    /\ Shape(OnlyIn("declarations").children[2]) = Id(given.name)
    /\ OnlyIn("declarations").children[3].type = "assignment"
    /\ Len(OnlyIn("declarations").children[3].children) = 2
    /\ Shape(OnlyIn("declarations").children[3].children[1]) = Id(given.name)
    /\ Shape(OnlyIn("declarations").children[3].children[2]) = given.tree
(***************************************************************************)
(* Programs of the line-oriented dialects: up to MaxLines lines, functions,*)
(* declarations, statements, comments and blank lines in any order.        *)
(***************************************************************************)
MaxLines == 3

ProgramLines ==
  {<<"m", "a", "i", "n", "(", ")", " ", "{">>, <<"p", "r", "i", "n", "t", "(", "x", ")", ";">>, <<"i", "n", "t", " ", "x", " ", "=", " ", "5", ";">>, <<" ", "f", "l", "o", "a", "t", " ", "y", ";">>, <<"x", " ", "=", " ", "x", " ", "+", " ", "1">>, <<"r", "e", "t", "u", "r", "n", " ", "x", ";">>,
   <<"/", "/", " ", "n", "o", "t", "e">>, <<" ", " ">>}

Programs == UNION {[1..n -> ProgramLines] : n \in 0..MaxLines}

ProgramCalls ==
  {Call("parseCode", Joined(lines, <<"\n">>), lang, [kind |-> "program", lines |-> lines]) :
     lines \in Programs, lang \in LineDialects}

InitProgram == Start(ProgramCalls)

SpecProgram == InitProgram /\ [][ParseCodeCall]_vars

\* the lines that are neither blank nor a comment, trimmed
Statements(lines) ==
  SelectSeq([i \in 1..Len(lines) |-> Trim(lines[i])],
            LAMBDA line : /\ line # <<>>
                          /\ ~StartsWith(line, <<"/", "/">>)
                          /\ ~StartsWith(line, <<"#">>))

\* what each of these lines is parsed to on its own
Parsed(lines) ==
  [i \in 1..Len(Statements(lines)) |->
     Shape(parseStatement(Statements(lines)[i], [ctr |-> 0, heap |-> 0]).node)]

Functions(lines) == SelectSeq(Parsed(lines), LAMBDA n : n.type = "function_declaration")

Declarations(lines) == SelectSeq(Parsed(lines), LAMBDA n : n.type = "variable_declaration")

Others(lines) ==
  SelectSeq(Parsed(lines),
            LAMBDA n : n.type \notin {"function_declaration", "variable_declaration"})

\* the group, when it has a member
Group(type, label, members) ==
  IF members # <<>> THEN <<Inner(type, label, "keyword", members)>> ELSE <<>>

\* C10: in a line-oriented dialect the children of the program root are every
\* function_declaration, then at most one 'declarations' group holding every
\* variable_declaration, then at most one 'statements' group holding every
\* other node; a group is there only when it has a member, and the nodes of
\* each bucket stand in the order of their lines.
C10_RootChildren ==
  status # "ready" =>
    /\ status = "returned"
    /\ result.type = "program"
    /\ Shape(result).children =
         Functions(given.lines)
         \o Group("declarations", <<"D", "e", "c", "l", "a", "r", "a", "t", "i", "o", "n", "s">>, Declarations(given.lines))
         \o Group("statements", <<"S", "t", "a", "t", "e", "m", "e", "n", "t", "s">>, Others(given.lines))

\* a statement, a declaration and a function, written in this order, have been
\* parsed: the root holds the function, the declarations and the statements
C10_Witness ==
  /\ status = "returned"
  /\ given.lines = <<<<"x", " ", "=", " ", "x", " ", "+", " ", "1">>, <<"i", "n", "t", " ", "x", " ", "=", " ", "5", ";">>, <<"m", "a", "i", "n", "(", ")", " ", "{">>>>
  /\ Len(result.children) = 3
  /\ result.children[1].type = "function_declaration"
  /\ result.children[2].type = "declarations"
  /\ result.children[3].type = "statements"
(***************************************************************************)
(* Ids and objects of one returned tree, over texts of every kind          *)
(***************************************************************************)
\* the arithmetic expressions handed to parseCode
ExpressionCalls == {Call("parseCode", c.input, expression, c.given) : c \in ArithCalls}

TreeCalls ==
  ExpressionCalls \cup CallCalls \cup CondCalls \cup HeaderCalls \cup DeclCalls
  \cup ProgramCalls

InitTree == Start(TreeCalls)

SpecTree == InitTree /\ [][ParseCodeCall]_vars

\* the ids / the object identities met on a walk over the whole tree
RECURSIVE Ids(_)
Ids(node) ==
  <<node.id>> \o Flatten([i \in 1..Len(node.children) |-> Ids(node.children[i])])

RECURSIVE Objects(_)
Objects(node) ==
  <<node.obj>> \o Flatten([i \in 1..Len(node.children) |-> Objects(node.children[i])])

\* C8: in the tree one call of parseCode returns, whatever the input and the
\* dialect, no two nodes have the same id, and no node object is met twice on
\* a walk from the root (no node is shared).
C8_UniqueIdsNoSharing ==
  status = "returned" => Distinct(Ids(result)) /\ Distinct(Objects(result))

\* an expression of at least two operators has been parsed in the expression
\* dialect, where parseExpression resets the counter a second time
C8_Witness ==
  /\ status = "returned"
  /\ language = expression
  /\ given.kind = "arith"
  /\ Len(Nodes(result)) >= 7

(***************************************************************************)
(* Runs of several calls: the caller generates again, with any text of a   *)
(* small family, through either exported function.                         *)
(***************************************************************************)
MaxCalls == 3

RunCalls ==
  {Call("parseCode", <<"1", "+", "2", "*", "3">>, expression, [kind |-> "run"]),
   Call("parseCode", <<"f", "(", "x", ")">>, expression, [kind |-> "run"]),
   Call("parseCode", <<>>, expression, [kind |-> "run"]),
   Call("parseCode", <<"i", "n", "t", " ", "x", " ", "=", " ", "5", ";">>, <<"c">>, [kind |-> "run"]),
   Call("parseCode", <<"i", "f", " ", "(", "x", " ", ">", " ", "0", ")", ":">>, <<"p", "y", "t", "h", "o", "n">>, [kind |-> "run"]),
   Call("parseCode", <<"m", "a", "i", "n", "(", ")", " ", "{">> \o <<"\n">> \o <<"i", "n", "t", " ", "y", ";">> \o <<"\n">> \o <<"r", "e", "t", "u", "r", "n", " ", "y", ";">>, <<"j", "a", "v", "a">>,
        [kind |-> "run"]),
   Call("parseCode", <<"/", "/", " ", "n", "o", "t", "e">>, <<"c">>, [kind |-> "run"]),
   Call("parseExpression", <<"1", "+", "2">>, expression, [kind |-> "run"]),
   Call("parseExpression", <<"(", "a", "-", "b", ")", "/", "c", "+", "d">>, expression, [kind |-> "run"]),
   Call("parseExpression", <<")">>, expression, [kind |-> "run"])}

\* the caller makes another call, after the last one has returned
NextCall ==
  /\ status = "returned"
  /\ calls < MaxCalls
  /\ \E c \in RunCalls :
       /\ input' = c.input
       /\ language' = c.language
       /\ entry' = c.entry
       /\ given' = c.given
  /\ status' = "ready"
  /\ result' = NoTree
  /\ UNCHANGED <<nodeIdCounter, first, calls>>

Init == Start(RunCalls)

Next == ParseCodeCall \/ ParseExpressionCall \/ NextCall

Spec == Init /\ [][Next]_vars

\* C9: the numbering restarts with every top-level call: after any calls of
\* parseCode and parseExpression, parseCode returns the tree, ids included,
\* that a first call with the same arguments returns, and the smallest id in
\* it is node_1.
C9_NumberingRestarts ==
  status = "returned" /\ entry = "parseCode" =>
    /\ 1 \in Range(Ids(result))
    /\ \A id \in Range(Ids(result)) : id >= 1
    /\ first.entry = "parseCode" /\ first.input = input /\ first.language = language =>
         result = first.tree

\* the third call of a run is parseCode on a line-oriented text, with the
\* arguments of the first call
C9_Witness ==
  /\ status = "returned"
  /\ calls = MaxCalls
  /\ entry = "parseCode"
  /\ language # expression
  /\ Len(Nodes(result)) >= 5
  /\ first.entry = "parseCode" /\ first.input = input /\ first.language = language
(***************************************************************************)
(* Operator nodes and their operands                                       *)
(***************************************************************************)
\* the operator nodes of a tree that do not have the children their type asks for
Misbuilt(node) ==
  {n \in Range(Nodes(node)) :
     \/ n.type = "binary_op" /\ Len(n.children) # 2
     \/ n.type = "unary_op" /\ Len(n.children) # 1}

\* C11: in every tree parseExpression or parseCode returns each binary_op node
\* has exactly 2 children and each unary_op node exactly 1, for every input,
\* those with a missing operand ("+3", "3+") included.
C11_OperatorArity == status = "returned" => Misbuilt(result) = {}
(***************************************************************************)
(* An expression, then the same expression within one more pair of         *)
(* parentheses, and so on: handed to parseExpression, and to parseCode as  *)
(* the initializer of a declaration line (parseExpressionRecursive).       *)
(***************************************************************************)
MaxParenOps == 2

MaxWraps == 3

MaxLineWraps == 1

\* arithmetic expressions written from a tree, and a few with names and calls
ParenTexts ==
  {Joined(Written(Numbered(t, 1).tree, "min"), sep) :
     t \in UNION {ArithShapes(n) : n \in 0..MaxParenOps}, sep \in {<<>>, <<" ">>}}
  \cup {<<"x">>, <<"f", "(", "1", ")">>, <<"a", " ", "-", " ", "b", " ", "*", " ", "c">>, <<"f", "(", "x", ")", " ", "+", " ", "1">>, <<"(", "a", " ", "+", " ", "b", ")", " ", "/", " ", "f", "(", "2", " ", "*", " ", "c", ")">>}

\* initializers of a declaration: the operators of the statement-level parser
LineTexts ==
  {<<"x">>, <<"1", "2">>, <<"a", " ", "+", " ", "b">>, <<"a", " ", "-", " ", "b", " ", "*", " ", "c">>, <<"a", " ", "*", " ", "b", " ", "-", " ", "c", " ", "/", " ", "d">>, <<"a", " ", "<", " ", "b">>, <<"a", " ", "+", " ", "b", " ", ">", " ", "c", " ", "%", " ", "2">>,
   <<"a", " ", "&", "&", " ", "b", " ", "|", "|", " ", "c">>, <<"-", "x", " ", "*", " ", "2">>}

RECURSIVE Wrapped(_, _)
Wrapped(text, n) == IF n = 0 THEN text ELSE <<"(">> \o Wrapped(text, n - 1) \o <<")">>

\* the text handed over: the expression within g.wraps pairs of parentheses,
\* on its own or as the initializer of a declaration
ParenInput(g) ==
  IF g.where = "expression"
  THEN Wrapped(g.text, g.wraps)
  ELSE <<"i", "n", "t", " ", "y", " ", "=", " ">> \o Wrapped(g.text, g.wraps) \o <<";">>

ParenCalls ==
  {Call("parseExpression", text, expression,
        [kind |-> "paren", where |-> "expression", text |-> text, wraps |-> 0]) :
     text \in ParenTexts}
  \cup
  {Call("parseCode", <<"i", "n", "t", " ", "y", " ", "=", " ">> \o text \o <<";">>, <<"c">>,
        [kind |-> "paren", where |-> "declaration", text |-> text, wraps |-> 0]) :
     text \in LineTexts}

\* the caller has the same expression parsed again, within one more pair of parentheses
WrapCall ==
  /\ status = "returned"
  /\ given.kind = "paren"
  /\ given.wraps < (IF given.where = "expression" THEN MaxWraps ELSE MaxLineWraps)
  /\ given' = [given EXCEPT !.wraps = @ + 1]
  /\ input' = ParenInput(given')
  /\ status' = "ready"
  /\ result' = NoTree
  /\ UNCHANGED <<nodeIdCounter, language, entry, first, calls>>

SpecParen ==
  Start(ParenCalls) /\ [][ParseExpressionCall \/ ParseCodeCall \/ WrapCall]_vars

\* the node the expression was parsed to, in the tree a call returned
ParsedIn(tree) ==
  IF given.where = "expression"
  THEN tree
  ELSE tree.children[1].children[1].children[3].children[2]

\* C12: redundant parentheses do not change the tree: "(" + e + ")" is parsed
\* to the tree e is parsed to, ids aside ("(((x)))" as "x"), by the
\* expression-dialect parser and by the statement-level parser.
C12_RedundantParentheses ==
  status = "returned" /\ calls >= 2 =>
    Shape(ParsedIn(result)) = Shape(ParsedIn(first.tree))

\* "(((x)))" has been parsed after "x", to the same identifier
C12_Witness ==
  /\ status = "returned"
  /\ given.where = "expression"
  /\ input = <<"(", "(", "(", "x", ")", ")", ")">>
  /\ first.input = <<"x">>
  /\ Shape(result) = Id(<<"x">>)
  /\ calls = 4

(***************************************************************************)
(* The tokenizer on its own                                                *)
(***************************************************************************)
MaxTokenLen == 3

\* texts over a letter, a digit, blank, newline and the glyphs
TokenTexts ==
  UNION {[1..n -> {"a", "1", " ", "\n"} \cup Glyphs] : n \in 0..MaxTokenLen}

\* tokenizeExpression(input) returns its tokens
TokenizeCall ==
  /\ status = "ready"
  /\ entry = "tokenizeExpression"
  /\ result' = tokenizeExpression(input)
  /\ status' = "returned"
  /\ calls' = calls + 1
  /\ UNCHANGED <<nodeIdCounter, input, language, entry, first, given>>

SpecTokens ==
  /\ Start({Call("tokenizeExpression", text, expression, [kind |-> "tokens"]) :
              text \in TokenTexts})
  /\ [][TokenizeCall]_vars

\* C13: the tokens of tokenizeExpression, joined, are the input without its
\* white space (so they stand in input order); no token is empty or holds
\* white space; a token that holds one of + - * / ( ) ^ is that glyph alone.
C13_Tokens ==
  status = "returned" =>
    /\ Flatten(result) = SelectSeq(input, LAMBDA c : c \notin WhiteSpace)
    /\ \A i \in DOMAIN result :
         /\ result[i] # <<>>
         /\ Range(result[i]) \cap WhiteSpace = {}
         /\ Range(result[i]) \cap Glyphs # {} => Len(result[i]) = 1

\* "a1" and "-" have been returned for "a1-"
C13_Witness ==
  /\ status = "returned"
  /\ input = <<"a", "1", "-">>
  /\ result = <<<<"a", "1">>, <<"-">>>>

(***************************************************************************)
(* One-line texts for the rules of the statement classifier                *)
(***************************************************************************)
\* first words: type keywords, statement keywords, other names
RuleHeads ==
  {[text |-> <<"i", "n", "t">>, kind |-> "type"], [text |-> <<"f", "l", "o", "a", "t">>, kind |-> "type"],
   [text |-> <<"s", "t", "r", "i", "n", "g">>, kind |-> "type"],
   [text |-> <<"i", "f">>, kind |-> "if"], [text |-> <<"w", "h", "i", "l", "e">>, kind |-> "while"],
   [text |-> <<"f", "o", "r">>, kind |-> "for"], [text |-> <<"r", "e", "t", "u", "r", "n">>, kind |-> "return"],
   [text |-> <<"x">>, kind |-> "name"], [text |-> <<"t", "o", "t", "a", "l">>, kind |-> "name"]}

\* what follows the first word: glued when no blank parts it from the word,
\* call when it holds '(' and ')', closed when it holds '{' or ends with ')'
\* or ';', gets when it holds '=' and no '=='
RuleRests ==
  {[text |-> <<" ", "y">>, glued |-> FALSE, call |-> FALSE, closed |-> FALSE, gets |-> FALSE],
   [text |-> <<" ", "y", ";">>, glued |-> FALSE, call |-> FALSE, closed |-> TRUE, gets |-> FALSE],
   [text |-> <<" ", "y", " ", "=", " ", "5", ";">>, glued |-> FALSE, call |-> FALSE, closed |-> TRUE, gets |-> TRUE],
   [text |-> <<" ", "y", " ", "=", " ", "5">>, glued |-> FALSE, call |-> FALSE, closed |-> FALSE, gets |-> TRUE],
   [text |-> <<" ", "y", " ", "=", "=", " ", "5">>, glued |-> FALSE, call |-> FALSE, closed |-> FALSE, gets |-> FALSE],
   [text |-> <<" ", "y", " ", "=", " ", "f", "(", "1", ")", ";">>, glued |-> FALSE, call |-> TRUE, closed |-> TRUE, gets |-> TRUE],
   [text |-> <<" ", "y", " ", "=", " ", "(", "a", " ", "+", " ", "b", ")", " ", "*", " ", "2">>, glued |-> FALSE, call |-> TRUE, closed |-> FALSE, gets |-> TRUE],
   [text |-> <<" ", "f", "(", "a", ",", " ", "b", ")">>, glued |-> FALSE, call |-> TRUE, closed |-> TRUE, gets |-> FALSE],
   [text |-> <<" ", "(", "y", " ", ">", " ", "0", ")", " ", "{">>, glued |-> FALSE, call |-> TRUE, closed |-> TRUE, gets |-> FALSE],
   [text |-> <<" ", "(", "y", " ", ">", " ", "0", ")", ":">>, glued |-> FALSE, call |-> TRUE, closed |-> FALSE, gets |-> FALSE],
   [text |-> <<"(", "y", " ", ">", " ", "0", ")", " ", "{">>, glued |-> TRUE, call |-> TRUE, closed |-> TRUE, gets |-> FALSE],
   [text |-> <<"(", "y", " ", ">", " ", "0", ")", ":">>, glued |-> TRUE, call |-> TRUE, closed |-> FALSE, gets |-> FALSE],
   [text |-> <<" ", "(", "i", " ", "=", " ", "0", ";", " ", "i", " ", "<", " ", "n", ";", " ", "i", " ", "=", " ", "i", " ", "+", " ", "1", ")", ":">>, glued |-> FALSE, call |-> TRUE, closed |-> FALSE, gets |-> TRUE],
   [text |-> <<" ", "(", "i", " ", "=", " ", "0", ";", " ", "i", " ", "<", " ", "n", ";", " ", "i", " ", "=", " ", "i", " ", "+", " ", "1", ")", " ", "{">>, glued |-> FALSE, call |-> TRUE, closed |-> TRUE, gets |-> TRUE]}

\* lines that several rules match
RuleCalls ==
  {Call("parseCode", head.text \o rest.text, lang,
        [kind |-> "rule", head |-> head, rest |-> rest]) :
     head \in RuleHeads, rest \in RuleRests, lang \in {<<"c">>, <<"p", "y", "t", "h", "o", "n">>}}

\* "if (a<=b):", "return x % 1", ...: an operation of the statement-level
\* parser as a condition or a returned value, with blanks around the operator or none
OpCalls ==
  {Call("parseCode", line[1] \o operands[1] \o gap \o op \o gap \o operands[2] \o line[2], lang,
        [kind |-> "op", op |-> op, gap |-> gap,
         spaced |-> line[1] \o operands[1] \o <<" ">> \o op \o <<" ">> \o operands[2] \o line[2]]) :
     line \in {<<<<"i", "f", " ", "(">>, <<")", ":">>>>, <<<<"r", "e", "t", "u", "r", "n", " ">>, <<>>>>},
     op \in {<<"<">>, <<">">>, <<"<", "=">>, <<">", "=">>, <<"=", "=">>, <<"!", "=">>, <<"&", "&">>, <<"|", "|">>, <<"%">>},
     operands \in {<<<<"a">>, <<"b">>>>, <<<<"x">>, <<"1">>>>}, gap \in {<<>>, <<" ">>}, lang \in {<<"c">>, <<"p", "y", "t", "h", "o", "n">>}}

MaxPrefixes == 2

\* "-x", "return !x", "- - x", ...: prefix operators before an operand, as a
\* line or a returned value; written without blanks, '-' never stands before
\* '-' or '--', which would read as another operator
PrefixCalls ==
  {Call("parseCode", start \o Joined(prefixes \o <<operand.text>>, gap), <<"c">>,
        [kind |-> "prefix", start |-> start, prefixes |-> prefixes, operand |-> operand,
         gap |-> gap]) :
     start \in {<<>>, <<"r", "e", "t", "u", "r", "n", " ">>},
     prefixes \in {ps \in UNION {[1..n -> {<<"-">>, <<"!">>, <<"+", "+">>, <<"-", "-">>}] : n \in 1..MaxPrefixes} :
                     \A i \in 1..(Len(ps) - 1) : Last(ps[i]) # "-" \/ Head(ps[i + 1]) # "-"},
     operand \in {[text |-> <<"x">>, tree |-> Id(<<"x">>)], [text |-> <<"5">>, tree |-> Num(<<"5">>)]},
     gap \in {<<>>, <<" ">>}}

\* "3 +" handed to parseExpression, "3 +" and "return 3 +" as a line of dialect
\* c: an operator after a complete expression of ops operators
DanglingCalls ==
  {Call(IF where[2] = expression THEN "parseExpression" ELSE "parseCode",
        where[1] \o left.text \o gap \o <<op>>, where[2],
        [kind |-> "dangling", left |-> left, op |-> op]) :
     where \in {<<<<>>, expression>>, <<<<>>, <<"c">>>>, <<<<"r", "e", "t", "u", "r", "n", " ">>, <<"c">>>>},
     left \in {[text |-> <<"3">>, ops |-> 0], [text |-> <<"x">>, ops |-> 0],
               [text |-> <<"1", " ", "+", " ", "2">>, ops |-> 1], [text |-> <<"a", " ", "*", " ", "b", " ", "-", " ", "4">>, ops |-> 2]},
     op \in ArithOps, gap \in {<<>>, <<" ">>}}

\* programs with lines that hold no token once ';' is taken off (bare)
BareCalls ==
  {Call("parseCode", Joined([i \in 1..Len(lines) |-> lines[i].text], <<"\n">>), <<"c">>,
        [kind |-> "bare", lines |-> lines]) :
     lines \in UNION {[1..n -> {[text |-> <<";">>, bare |-> TRUE],
                                [text |-> <<" ", " ", ";", " ">>, bare |-> TRUE],
                                [text |-> <<"x", " ", "+", " ", "1", ";">>, bare |-> FALSE],
                                [text |-> <<"i", "n", "t", " ", "y", ";">>, bare |-> FALSE],
                                [text |-> <<"f", "(", ")", " ", "{">>, bare |-> FALSE]}] : n \in 1..MaxLines}}

ForLabels == <<<<"I", "n", "i", "t">>, <<"C", "o", "n", "d", "i", "t", "i", "o", "n">>, <<"U", "p", "d", "a", "t", "e">>>>

\* "for (i; i < n; i + 1):", "for(i; i < n):", ...: up to three parts, each
\* with the tree it denotes; a part may be empty
ForCalls ==
  {Call("parseCode",
        <<"f", "o", "r">> \o gap \o <<"(">> \o Joined([i \in 1..Len(parts) |-> parts[i].text], <<";", " ">>) \o <<")", ":">>,
        lang, [kind |-> "for", parts |-> parts]) :
     gap \in {<<>>, <<" ">>},
     parts \in UNION {[1..n -> {[text |-> <<>>, tree |-> NULL],
                                [text |-> <<"i">>, tree |-> Id(<<"i">>)],
                                [text |-> <<"i", " ", "<", " ", "n">>, tree |-> Bin(<<"<">>, Id(<<"i">>), Id(<<"n">>))],
                                [text |-> <<"i", " ", "+", " ", "1">>, tree |-> Bin(<<"+">>, Id(<<"i">>), Num(<<"1">>))]}] :
                        n \in 1..Len(ForLabels)},
     lang \in {<<"c">>, <<"p", "y", "t", "h", "o", "n">>}}

\* "x = 5;", "total=a + b", "x =", "x = a >= b", ...: the right-hand side with
\* the tree it denotes; the empty one denotes the placeholder of the
\* statement-level parser, an identifier without a name
AssignCalls ==
  {Call("parseCode", target \o gets \o value.text \o ending, lang,
        [kind |-> "assign", target |-> target, value |-> value]) :
     target \in {<<"x">>, <<"t", "o", "t", "a", "l">>}, gets \in {<<" ", "=", " ">>, <<"=">>, <<" ", "=">>},
     value \in {[text |-> <<>>, tree |-> Id(<<>>)], [text |-> <<"5">>, tree |-> Num(<<"5">>)],
                [text |-> <<"a", " ", "+", " ", "b">>, tree |-> Bin(<<"+">>, Id(<<"a">>), Id(<<"b">>))],
                [text |-> <<"a", " ", ">", "=", " ", "b">>, tree |-> Bin(<<">", "=">>, Id(<<"a">>), Id(<<"b">>))],
                [text |-> <<"a", " ", "<", "=", " ", "b">>, tree |-> Bin(<<"<", "=">>, Id(<<"a">>), Id(<<"b">>))],
                [text |-> <<"a", " ", "!", "=", " ", "b">>, tree |-> Bin(<<"!", "=">>, Id(<<"a">>), Id(<<"b">>))]},
     ending \in {<<>>, <<";">>}, lang \in {<<"c">>, <<"p", "y", "t", "h", "o", "n">>}}

SpecStatement ==
  /\ Start(RuleCalls \cup OpCalls \cup PrefixCalls \cup DanglingCalls \cup BareCalls
             \cup ForCalls \cup AssignCalls)
  /\ [][ParseCodeCall \/ ParseExpressionCall]_vars
\* the node of the only line of the text: under the root when it is a function,
\* the only member of the only group otherwise
LineNode ==
  IF Len(result.children) # 1 THEN NULL
  ELSE IF result.children[1].type = "function_declaration" THEN result.children[1]
  ELSE IF Len(result.children[1].children) = 1 THEN result.children[1].children[1]
  ELSE NULL

\* C14: parseStatement takes the first rule that matches, in the order
\* variable declaration, function declaration, if, while, for, return,
\* assignment, expression: a line whose first word is a type keyword is a
\* variable_declaration; another line with '(' and ')' that holds '{' or ends
\* with ')' or ';' is a function_declaration, also after if / while / for /
\* return or with '='.
C14_RuleOrder ==
  given.kind = "rule" /\ status # "ready" =>
    /\ status = "returned"
    /\ IF given.head.kind = "type" /\ ~given.rest.glued
       THEN LineNode.type = "variable_declaration"
       ELSE IF given.rest.call /\ given.rest.closed
       THEN LineNode.type = "function_declaration"
       ELSE IF given.head.kind = "if" THEN LineNode.type = "if_statement"
       ELSE IF given.head.kind = "while" THEN LineNode.type = "while_statement"
       ELSE IF given.head.kind = "for" THEN LineNode.type = "for_statement"
       ELSE IF given.head.kind = "return" THEN LineNode.type = "return_statement"
       ELSE IF given.rest.gets THEN LineNode.type = "assignment"
       ELSE LineNode.type \notin
              {"variable_declaration", "function_declaration", "if_statement",
               "while_statement", "for_statement", "return_statement", "assignment",
               NULL.type}

\* "return y = f(1);" has been parsed: to a function_declaration
C14_Witness ==
  /\ status = "returned"
  /\ input = <<"r", "e", "t", "u", "r", "n", " ", "y", " ", "=", " ", "f", "(", "1", ")", ";">>
  /\ LineNode.type = "function_declaration"

\* C15: the statement-level parser recognises < > <= >= == != && || %
\* whether or not blanks stand around them: "a" + op + "b" is parsed to the
\* binary_op tree "a " + op + " b" is parsed to.
C15_OperatorsWithoutBlanks ==
  given.kind = "op" /\ status # "ready" =>
    /\ status = "returned"
    /\ LineNode.children[1].type = "binary_op"
    /\ Shape(result) = Shape(parseCode(given.spaced, language, Fresh).node)

\* the tree of the prefixes applied to the operand, the first prefix outermost
RECURSIVE Prefixed(_, _)
Prefixed(prefixes, operand) ==
  IF prefixes = <<>> THEN operand
  ELSE Inner("unary_op", Head(prefixes), "operator", <<Prefixed(Tail(prefixes), operand)>>)

\* C16: each prefix operator - ! ++ -- before an operand x is parsed by the
\* statement-level parser to a unary_op with the operator as value and the
\* parse of x as its only child; several prefixes nest, the first outermost.
C16_PrefixOperators ==
  given.kind = "prefix" /\ status # "ready" =>
    /\ status = "returned"
    /\ Shape(IF given.start = <<>> THEN LineNode ELSE LineNode.children[1])
         = Prefixed(given.prefixes, given.operand.tree)

\* the operator nodes of a tree
OperatorNodes(tree) == SelectSeq(Nodes(tree), LAMBDA n : n.type = "binary_op")

\* C17: an operator whose right operand is missing ("3 +", "3 *") makes
\* neither parser fail, and its node is built all the same, over the operands
\* obtained or a placeholder: the tree has a binary_op for every operator.
C17_DanglingOperator ==
  given.kind = "dangling" /\ status # "ready" =>
    /\ status = "returned"
    /\ ~IsNull(result)
    /\ Len(OperatorNodes(result)) = given.left.ops + 1
    /\ \E i \in DOMAIN OperatorNodes(result) : OperatorNodes(result)[i].value = <<given.op>>

\* the nodes of the lines: the functions under the root and the members of the groups
Members(tree) ==
  Flatten([i \in 1..Len(tree.children) |->
             IF tree.children[i].type = "function_declaration"
             THEN <<tree.children[i]>>
             ELSE tree.children[i].children])

\* C18: a line that falls to the expression fallback and has no token (";")
\* is dropped: it adds no node to the tree, so functions, declarations and
\* statements together hold one node for every other line.
C18_BareLineDropped ==
  given.kind = "bare" /\ status # "ready" =>
    /\ status = "returned"
    /\ Len(Members(result)) = Len(SelectSeq(given.lines, LAMBDA line : ~line.bare))

\* the containers of the parts from the k-th on: one for each part that is not empty
RECURSIVE Containers(_, _)
Containers(parts, k) ==
  IF k > Len(parts) THEN <<>>
  ELSE (IF parts[k].text = <<>> THEN <<>>
        ELSE <<Inner("statement", ForLabels[k], "keyword", <<parts[k].tree>>)>>)
       \o Containers(parts, k + 1)

\* C19: the content of the parentheses of a for line is split at ';' into up
\* to three parts, and every part that is not empty gives, in the order Init,
\* Condition, Update, a 'statement' node with the parsed part as its only
\* child, also when there are fewer than three parts.
C19_ForParts ==
  given.kind = "for" /\ status # "ready" =>
    /\ status = "returned"
    /\ LineNode.type = "for_statement"
    /\ Shape(LineNode).children = Containers(given.parts, 1)

\* C20: an assignment node has exactly two children: the identifier of the
\* target, the text left of the first '=', and then the expression parsed
\* from the whole text right of that '=', also for "x =" and "x = a >= b".
C20_AssignmentChildren ==
  given.kind = "assign" /\ status # "ready" =>
    /\ status = "returned"
    /\ LineNode.type = "assignment"
    /\ Len(LineNode.children) = 2
    /\ Shape(LineNode.children[1]) = Id(given.target)
    /\ Shape(LineNode.children[2]) = given.value.tree
(***************************************************************************)
(* An expression, then the same expression followed by further tokens:     *)
(* handed to parseExpression (parseExpressionTokens) and to                *)
(* parseExpressionRecursive.                                               *)
(***************************************************************************)
MaxTrail == 2

\* expressions of the grammar: every operator with its operands, every
\* parenthesis and every call closed
FormedHeads ==
  {<<"1">>, <<"x">>, <<"1", " ", "+", " ", "2">>, <<"a", " ", "-", " ", "b", " ", "*", " ", "c">>, <<"(", "a", " ", "+", " ", "b", ")", " ", "/", " ", "2">>, <<"f", "(", "1", ")">>, <<"f", "(", "x", ")", " ", "+", " ", "1">>, <<"2", " ", "*", " ", "(", "3", " ", "+", " ", "y", ")">>, <<"f", "(", ")">>,
   <<"g", "(", "1", " ", ",", " ", "x", ")">>, <<"a", " ", "<", " ", "b">>, <<"a", " ", "&", "&", " ", "b", " ", "|", "|", " ", "c">>, <<"-", "x", " ", "*", " ", "2">>, <<"!", "d", "o", "n", "e">>, <<"a", " ", "=", "=", " ", "b", " ", "%", " ", "2">>}

\* texts that end within an expression
OpenHeads == {<<"1", " ", "+">>, <<"1", " ", "*">>, <<"(", " ", "1">>, <<"f", " ", "(">>, <<"f", " ", "(", " ", "1">>, <<"-">>, <<"a", " ", "<">>, <<"(">>, <<"2", " ", "*", " ", "(", " ", "3", " ", "+">>}

TrailTokens == {<<"2">>, <<"y">>, <<"+">>, <<"*">>, <<"(">>, <<")">>, <<"<">>, <<",">>, <<"@">>, <<"!">>}

Trails == UNION {[1..n -> TrailTokens] : n \in 1..MaxTrail}

TrailCalls ==
  {Call(e, text, expression, [kind |-> "trail", formed |-> text \in FormedHeads, trail |-> <<>>]) :
     e \in {"parseExpression", "parseExpressionRecursive"}, text \in FormedHeads \cup OpenHeads}

\* parseExpressionRecursive(input) returns its tree
ParseRecursiveCall ==
  /\ status = "ready"
  /\ entry = "parseExpressionRecursive"
  /\ Returns(Returned(parseExpressionRecursive(input, Fresh)))

\* the same text is parsed again with the tokens of a trail behind it
TrailCall ==
  /\ status = "returned"
  /\ given.kind = "trail"
  /\ given.trail = <<>>
  /\ \E g \in Trails :
       /\ given' = [given EXCEPT !.trail = g]
       /\ input' = input \o <<" ">> \o Joined(g, <<" ">>)
  /\ status' = "ready"
  /\ result' = NoTree
  /\ UNCHANGED <<nodeIdCounter, language, entry, first, calls>>

SpecTrail ==
  Start(TrailCalls) /\ [][ParseExpressionCall \/ ParseRecursiveCall \/ TrailCall]_vars

\* the operators of the while loop of the k-th function of parseExpressionRecursive
RecOps(k) ==
  CASE k = 1 -> {<<"|", "|">>}
    [] k = 2 -> {<<"&", "&">>}
    [] k = 3 -> {<<"=", "=">>, <<"!", "=">>}
    [] k = 4 -> {<<"<">>, <<">">>, <<"<", "=">>, <<">", "=">>}
    [] k = 5 -> {<<"+">>, <<"-">>}
    [] k = 6 -> {<<"*">>, <<"/">>, <<"%">>}

\* the binary operators of the parser called
BinaryOperators ==
  IF entry = "parseExpression"
  THEN {<<"+">>, <<"-">>, <<"*">>, <<"/">>}
  ELSE UNION {RecOps(k) : k \in 1..6}

\* C21 as stated: when t has been parsed to a tree and g does not begin with
\* a binary operator of the parser, t followed by g is parsed to the same
\* tree, ids aside.
C21_TrailingTokensIgnored ==
  /\ status = "returned"
  /\ given.trail # <<>>
  /\ first.tree.type # "expression"
  /\ Head(given.trail) \notin BinaryOperators
  => Shape(result) = Shape(first.tree)

\* C21 amended: when t is an expression of the grammar (no operator without
\* its operand, no parenthesis or call left open), has been parsed to a tree
\* (not to the leaf that stands for a text without a parse) and g begins neither with
\* a binary operator of the parser nor, t ending in an identifier, with "(",
\* the call on t followed by g returns, and returns the tree of t, ids aside.
C21_TrailingTokensIgnoredFormed ==
  /\ given.trail # <<>>
  /\ given.formed
  /\ first.tree.type # "expression"
  /\ Head(given.trail) \notin BinaryOperators
  /\ ~ /\ Head(given.trail) = <<"(">>
       /\ IsIdentifier(Last(tokenizeExpression(first.input)))
  => /\ status # "hung"
     /\ status = "returned" => Shape(result) = Shape(first.tree)

\* "1 2" has been parsed after "1", to the constant 1
C21_Witness ==
  /\ status = "returned"
  /\ entry = "parseExpression"
  /\ first.input = <<"1">>
  /\ input = <<"1", " ", "2">>
  /\ Shape(result) = Num(<<"1">>)
  /\ calls = 2
(***************************************************************************)
(* The simple code parser (part_001 296-403).  Its parseExpression,        *)
(* tokenizer, parseExpressionTokens and createNode (172-294, 405-414) are  *)
(* line by line those modelled above.  A function returns the node, the    *)
(* counters and hang.                                                      *)
(***************************************************************************)
\* if (value) node.children.push(parseExpression(value))
Simple_attachParsed(p, e) == IF e.hang THEN e ELSE Returned(attach(p, e))

Simple_pushParsed(p, text) ==
  IF text # <<>> THEN Simple_attachParsed(p, parseExpression(text, p.st)) ELSE Returned(p)

\* for (const param of paramList) functionNode.children.push(createNode('identifier', param, ...))
RECURSIVE Simple_paramLoop(_, _, _)
Simple_paramLoop(f, paramList, i) ==
  IF i > Len(paramList) THEN f
  ELSE Simple_paramLoop(leafUnder(f, "identifier", Trim(paramList[i]), "identifier"),
                        paramList, i + 1)

\* functionName = parts[0].trim().split(' ').pop() || 'function';
\* parameters = parts[1]?.split(')')[0] || ''
Simple_functionOf(functionName, parameters, st) ==
  IF Trim(parameters) # <<>>
  THEN Simple_paramLoop(createNode(st, "function",
                                   IF functionName = <<>> THEN <<"f", "u", "n", "c", "t", "i", "o", "n">> ELSE functionName,
                                   "identifier", <<>>),
                        Split(parameters, ","), 1)
  ELSE createNode(st, "function", IF functionName = <<>> THEN <<"f", "u", "n", "c", "t", "i", "o", "n">> ELSE functionName,
                  "identifier", <<>>)

Simple_functionParts(parts, st) ==
  Simple_functionOf(Last(Split(Trim(parts[1]), " ")),
                    IF Len(parts) >= 2 THEN Split(parts[2], ")")[1] ELSE <<>>, st)

Simple_parseFunctionDeclaration(statement, st) ==
  Simple_functionParts(Split(statement, "("), st)

Simple_parseReturnStatement(statement, st) ==
  Simple_pushParsed(createNode(st, "return_statement", <<"r", "e", "t", "u", "r", "n">>, "keyword", <<>>),
                    Replace(Trim(Replace(statement, <<"r", "e", "t", "u", "r", "n">>, <<>>)), <<";">>, <<>>))

Simple_parseIfStatement(statement, st) ==
  Simple_pushParsed(createNode(st, "if_statement", <<"i", "f">>, "keyword", <<>>),
                    MatchParen(statement, <<"i", "f">>))

\* valueNode = /^\d+(\.\d+)?$/.test(value) ? constant : identifier
Simple_withValue(a, value) ==
  IF value = <<>> THEN a
  ELSE IF IsNumber(value) THEN leafUnder(a, "constant", value, "constant")
  ELSE leafUnder(a, "identifier", value, "identifier")

\* variable = parts[0].trim(); value = parts[1]?.trim().replace(';', '') || ''
Simple_assignmentOf(parts, st) ==
  Simple_withValue(leafUnder(createNode(st, "assignment", <<"=">>, "operator", <<>>),
                             "identifier", Trim(parts[1]), "identifier"),
                   IF Len(parts) >= 2 THEN Replace(Trim(parts[2]), <<";">>, <<>>) ELSE <<>>)

Simple_parseAssignment(statement, st) == Simple_assignmentOf(Split(statement, "="), st)

Simple_parseStatement(statement, st) ==
  IF Includes(statement, <<"(">>) /\ Includes(statement, <<")">>) /\ ~Includes(statement, <<"=">>)
  THEN Returned(Simple_parseFunctionDeclaration(statement, st))
  ELSE IF StartsWith(statement, <<"r", "e", "t", "u", "r", "n">>)
  THEN Simple_parseReturnStatement(statement, st)
  ELSE IF StartsWith(statement, <<"i", "f">>)
  THEN Simple_parseIfStatement(statement, st)
  ELSE IF Includes(statement, <<"=">>) /\ ~Includes(statement, <<"=", "=">>)
  THEN Returned(Simple_parseAssignment(statement, st))
  ELSE Returned(createNode(st, "statement", statement, "identifier", <<>>))

\* if (statementNode) programNode.children.push(statementNode)
Simple_pushStatement(p, s) ==
  IF s.hang THEN s
  ELSE IF IsNull(s.node) THEN Returned([p EXCEPT !.st = s.st])
  ELSE Returned(attach(p, s))

\* for (const line of lines): p holds the program node and the counters
RECURSIVE Simple_lineLoop(_, _, _)
Simple_lineLoop(lines, i, p) ==
  IF p.hang \/ i > Len(lines) THEN p
  ELSE IF \/ StartsWith(Trim(lines[i]), <<"/", "/">>)
          \/ StartsWith(Trim(lines[i]), <<"#">>)
  THEN Simple_lineLoop(lines, i + 1, p)
  ELSE Simple_lineLoop(lines, i + 1,
                       Simple_pushStatement(p, Simple_parseStatement(Trim(lines[i]), p.st)))

\* export function parseCode of the simple parser: nodeIdCounter = 0 first
Simple_parseCode(text, lang, st) ==
  IF lang = expression
  THEN parseExpression(text, [st EXCEPT !.ctr = 0])
  ELSE Simple_lineLoop(SelectSeq(Split(text, "\n"), LAMBDA line : Trim(line) # <<>>), 1,
                       Returned(createNode([st EXCEPT !.ctr = 0], "program",
                                           ToUpperCase(lang) \o <<" ", "P", "r", "o", "g", "r", "a", "m">>, "keyword", <<>>)))

SimpleParseCodeCall ==
  /\ status = "ready"
  /\ entry = "simple.parseCode"
  /\ Returns(Simple_parseCode(input, language, Fresh))

MaxSimpleLines == 2

SimpleLines ==
  {<<"r", "e", "t", "u", "r", "n", " ", "x", ";">>, <<"r", "e", "t", "u", "r", "n", " ", "a", " ", "+", " ", "b", " ", "*", " ", "2">>, <<"r", "e", "t", "u", "r", "n">>, <<"i", "f", " ", "(", "n", " ", "<", "=", " ", "1", ")", " ", "{">>, <<"i", "f", " ", "(", "a", " ", "=", "=", " ", "b", ")">>, <<"i", "f", " ", "(", "x", ")">>,
   <<"x", " ", "=", " ", "5">>, <<"t", "o", "t", "a", "l", " ", "=", " ", "a", " ", "+", " ", "b", ";">>, <<"p", "r", "i", "n", "t", "(", "x", ")">>, <<"i", "n", "t", " ", "f", "(", "i", "n", "t", " ", "a", ",", " ", "i", "n", "t", " ", "b", ")", " ", "{">>, <<"y">>, <<"/", "/", " ", "n", "o", "t", "e">>}

SimpleCalls ==
  {Call("simple.parseCode", Joined(lines, <<"\n">>), lang,
        [kind |-> "simple", lines |-> lines]) :
     lines \in UNION {[1..n -> SimpleLines] : n \in 0..MaxSimpleLines}, lang \in {<<"c">>, <<"p", "y", "t", "h", "o", "n">>}}
  \cup {Call("simple.parseCode", text, expression, [kind |-> "simple", lines |-> <<text>>]) :
          text \in {<<"1", " ", "+", " ", "2">>, <<"f", "(", "x", ")", " ", "*", " ", "3">>, <<>>}}

SpecSimple == Start(SimpleCalls) /\ [][SimpleParseCodeCall]_vars

\* C22: the tree the simple parseCode returns has no id twice, also when a
\* line is 'return <expr>' or 'if (<expr>)' and its expression is parsed by
\* parseExpression.
C22_SimpleIdsDistinct ==
  status = "returned" => Distinct(Ids(result))
(***************************************************************************)
(* The cursor of parseExpressionRecursive: the calls of its functions and  *)
(* the iterations of its loops during one parse, each with the cursor at   *)
(* its start and at its end.                                               *)
(***************************************************************************)
MaxCursorLen == 3

RecNames ==
  <<"parseLogicalOr", "parseLogicalAnd", "parseEquality", "parseComparison", "parseAddSub",
    "parseMulDiv", "parseUnary", "parsePrimary">>

\* the k-th function called with the cursor at index
RecRun(k, tokens, index, st) ==
  CASE k = 1 -> Rec_parseLogicalOr(tokens, index, st)
    [] k = 2 -> Rec_parseLogicalAnd(tokens, index, st)
    [] k = 3 -> Rec_parseEquality(tokens, index, st)
    [] k = 4 -> Rec_parseComparison(tokens, index, st)
    [] k = 5 -> Rec_parseAddSub(tokens, index, st)
    [] k = 6 -> Rec_parseMulDiv(tokens, index, st)
    [] k = 7 -> Rec_parseUnary(tokens, index, st)
    [] k = 8 -> Rec_parsePrimary(tokens, index, st)

Span(fn, at, r) == [fn |-> fn, at |-> at, to |-> r.index]

RECURSIVE RecCalls(_, _, _, _), RecLoopCalls(_, _, _), RecLoopStep(_, _, _, _),
          RecArgCalls(_, _), RecArgStep(_, _, _)

\* the call of the k-th function with the cursor at index, and the calls and
\* iterations within it
RecCalls(k, tokens, index, st) ==
  {Span(RecNames[k], index, RecRun(k, tokens, index, st))}
  \cup
  IF k <= 6
  THEN RecCalls(k + 1, tokens, index, st)
       \cup RecLoopCalls(k, tokens, RecRun(k + 1, tokens, index, st))
  ELSE IF k = 7
  THEN IF Peek(tokens, index) \in {<<"-">>, <<"!">>, <<"+", "+">>, <<"-", "-">>}
       THEN RecCalls(7, tokens, index + 1, st)
       ELSE RecCalls(8, tokens, index, st)
  ELSE IF Peek(tokens, index) = <<"(">>
  THEN RecCalls(1, tokens, index + 1, st)
  ELSE IF /\ Peek(tokens, index) # NoToken
          /\ ~IsNumber(Peek(tokens, index))
          /\ ~IsStringLiteral(Peek(tokens, index))
          /\ IsIdentifier(Peek(tokens, index))
          /\ Peek(tokens, index + 1) = <<"(">>
  THEN RecArgCalls(tokens, MadeR(createNode(st, "call_expression", Peek(tokens, index),
                                            "identifier", <<>>), index + 2))
  ELSE {}

\* while (peek() is an operator of the k-th function): l is `left`
RecLoopCalls(k, tokens, l) ==
  IF Peek(tokens, l.index) \in RecOps(k)
  THEN RecCalls(k + 1, tokens, l.index + 1, l.st)
       \cup RecLoopStep(k, tokens, l,
                        Rec_fold(l, Peek(tokens, l.index),
                                 RecRun(k + 1, tokens, l.index + 1, l.st)))
  ELSE {}

RecLoopStep(k, tokens, l, next) ==
  {Span("iteration", l.index, next)} \cup RecLoopCalls(k, tokens, next)

\* while (peek() && peek() !== ')'): a is the call node
RecArgCalls(tokens, a) ==
  IF Peek(tokens, a.index) = NoToken \/ Peek(tokens, a.index) = <<")">>
  THEN {}
  ELSE RecCalls(1, tokens, a.index, a.st)
       \cup RecArgStep(tokens, a,
                       Rec_argStep(tokens, a, Rec_parseLogicalOr(tokens, a.index, a.st)))

RecArgStep(tokens, a, next) ==
  {Span("iteration", a.index, next)} \cup RecArgCalls(tokens, next)

CursorTokens == {<<"x">>, <<"1">>, <<"+">>, <<"-">>, <<"*">>, <<"<">>, <<"&", "&">>, <<"(">>, <<")">>, <<",">>, <<"@">>, <<"!">>}

CursorCalls ==
  {Call("parseExpressionRecursive", Joined(tokens, <<" ">>), expression, [kind |-> "cursor"]) :
     tokens \in UNION {[1..n -> CursorTokens] : n \in 0..MaxCursorLen}}

SpecCursor == Start(CursorCalls) /\ [][ParseRecursiveCall]_vars

\* C23: during a parse by parseExpressionRecursive the cursor starts at 0,
\* no function returns with the cursor before the place it was called at or
\* beyond tokens.length, parsePrimary called with a token left advances it
\* by one at least, and every iteration of an operator loop or of the
\* argument loop ends with the cursor further on than it began.
C23_CursorAdvances ==
  status = "returned" =>
    /\ \E c \in RecCalls(1, tokenizeExpression(input), 0, Fresh) :
         c.fn = "parseLogicalOr" /\ c.at = 0
    /\ \A c \in RecCalls(1, tokenizeExpression(input), 0, Fresh) :
         /\ 0 <= c.at /\ c.at <= c.to /\ c.to <= Len(tokenizeExpression(input))
         /\ c.fn = "parsePrimary" /\ c.at < Len(tokenizeExpression(input)) => c.to > c.at
         /\ c.fn = "iteration" => c.to > c.at

\* "x ( @" has been parsed: the argument loop ran once, from cursor 2 to the
\* end, over a call of parsePrimary on the unknown token
C23_Witness ==
  /\ status = "returned"
  /\ input = <<"x", " ", "(", " ", "@">>
  /\ Shape(result) = Inner("call_expression", <<"x">>, "identifier", <<Id(<<"@">>)>>)
  /\ {Span("iteration", 2, [index |-> 3]), Span("parsePrimary", 2, [index |-> 3]),
      Span("parsePrimary", 0, [index |-> 3])}
       \subseteq RecCalls(1, tokenizeExpression(input), 0, Fresh)
====
